---- MODULE Spec2Model ----
(***************************************************************************)
(* Architecture-as-code studio: the renderer layer (Graph, PlantUML,       *)
(* Structurizr, LikeC4), the renderer registry and DiagramService.         *)
(*                                                                         *)
(* Strings are sequences of one-character strings, so that sanitizeId can  *)
(* be computed character by character.  A rendered text is kept as the     *)
(* sequence of the statements it consists of (one record per declaration,  *)
(* arrow or title line), each carrying the identifiers and labels that     *)
(* the template string interpolates.                                       *)
(***************************************************************************)
EXTENDS Integers, Sequences, FiniteSets, TLC

VARIABLES model, registry, req, out, prev, clock, probe, util, plantuml, viewer, dashboard

\* the renderer layer: payload, registry, last request and its results
rendererVars == <<model, registry, req, out, prev, clock, probe>>

\* the helper calls made outside a render: their arguments and results
others == <<util>>

vars == <<model, registry, req, out, prev, clock, probe, util, plantuml, viewer, dashboard>>

----------------------------------------------------------------------------
(* Bounds *)

\* largest scenario explored: elements + relationships + header edits + registry edits
MaxSize == 2

\* largest value Date.now() returns
MaxClock == 1

\* longest identifier handed to sanitizeId on its own
MaxLen == 3

\* most applications and most components of a payload whose nesting is examined
MaxApps == 2

MaxComps == 3

----------------------------------------------------------------------------
(* JavaScript values *)

\* the value of an absent optional field
Undef == <<"undefined">>

Empty == <<>>

\* !x for an optional string
Falsy(s) == s = Undef \/ s = Empty

Truthy(s) == ~Falsy(s)

\* a || b for optional strings
OrElse(a, b) == IF Truthy(a) THEN a ELSE b

\* the characters matched by [a-zA-Z0-9]
AlnumChars ==
  {"a","b","c","d","e","f","g","h","i","j","k","l","m","n","o","p","q","r","s","t","u","v","w","x","y","z",
   "A","B","C","D","E","F","G","H","I","J","K","L","M","N","O","P","Q","R","S","T","U","V","W","X","Y","Z",
   "0","1","2","3","4","5","6","7","8","9"}

\* String(n) for the clock values in use
NumStr(n) == CASE n = 0 -> "0" [] n = 1 -> "1" [] n = 2 -> "2" [] n = 3 -> "3" [] n = 4 -> "4" [] OTHER -> "9"

\* String(obj) of a plain object
ObjectObject == <<"[","o","b","j","e","c","t"," ","O","b","j","e","c","t","]">>

FilterMap(s, P(_), F(_)) ==
  LET t == SelectSeq(s, P) IN [i \in 1..Len(t) |-> F(t[i])]

Range(s) == {s[i] : i \in 1..Len(s)}

----------------------------------------------------------------------------
(* AbstractRenderer helpers *)

\* fault: the identifier is written as it came
sanitizeId_Raw(id) == id

\* fault: the pattern lacks the g flag, so only the first match is replaced
sanitizeId_FirstMatch(id) ==
  [i \in 1..Len(id) |->
     IF id[i] \notin AlnumChars /\ \A j \in 1..(i - 1) : id[j] \in AlnumChars
     THEN "_" ELSE id[i]]

\* id.replace(/[^a-zA-Z0-9]/g, '_')
sanitizeId(id) ==
  [i \in 1..Len(id) |-> IF id[i] \in AlnumChars THEN id[i] ELSE "_"]

\* StructurizrMappingService.sanitizeId: the same replacement, declared a second time
mappingSanitizeId(id) ==
  [i \in 1..Len(id) |-> IF id[i] \in AlnumChars THEN id[i] ELSE "_"]

\* a relationship endpoint is a raw id string or an object carrying uid
StrEnd(s) == [isObj |-> FALSE, uid |-> s]

ObjEnd(u) == [isObj |-> TRUE, uid |-> u]

\* truthiness of rel.source / rel.target
EndTruthy(e) == e.isObj \/ Truthy(e.uid)

extractElementId(e) ==
  IF e.isObj /\ Truthy(e.uid) THEN e.uid
  ELSE IF e.isObj THEN ObjectObject
  ELSE e.uid

\* rel.source && rel.target
HasEnds(rel) == EndTruthy(rel.source) /\ EndTruthy(rel.target)

\* element.uid && element.name
HasUidAndName(e) == Truthy(e.uid) /\ Truthy(e.name)

----------------------------------------------------------------------------
(* Rendered statements *)

\* a declaration: KIND(id, "label") or `id = kind "label"`, nested under tag
Decl(k, id, label, tag) == [k |-> k, id |-> id, to |-> Empty, label |-> label, tag |-> tag]

\* an edge or arrow from id to `to`
Arrow(k, from, to, label, tag) == [k |-> k, id |-> from, to |-> to, label |-> label, tag |-> tag]

\* a line without identifiers (title, fixed block)
Line(k, label) == [k |-> k, id |-> Empty, to |-> Empty, label |-> label, tag |-> Empty]

ArrowKinds == {"edge", "Rel", "Rel_D", "Rel_U", "Rel_R", "-->", "->", "->>", "relationship"}

NoContent == [form |-> "none", lines |-> <<>>]

\* statements of the views block that refer to an element declared in the model block
ViewKinds == {"view systemContext", "view container", "view component", "view containers"}

\* statements that carry no identifier
LineKinds == {"title", "workspace", "element", "relationship kind", "view landscape"}

IsArrow(st) == st.k \in ArrowKinds

\* the statements of a content that declare an element
Decls(content) ==
  SelectSeq(content.lines,
            LAMBDA st : ~IsArrow(st) /\ st.k \notin ViewKinds /\ st.k \notin LineKinds)

Arrows(content) == SelectSeq(content.lines, IsArrow)

\* every identifier written into a content
IdsOf(content) ==
  {st.id : st \in {x \in Range(content.lines) : x.k \notin LineKinds}}
    \cup {st.to : st \in Range(Arrows(content))}

----------------------------------------------------------------------------
(* Graph renderer *)

graphNodes(elements, group) ==
  FilterMap(elements, HasUidAndName,
            LAMBDA e : Decl("node", sanitizeId(e.uid), e.name, <<group>>))

\* fault: an edge is kept only when its target is an element object
graphEdges_ObjectTargetsOnly(relationships) ==
  FilterMap(relationships, LAMBDA rel : HasEnds(rel) /\ rel.target.isObj,
            LAMBDA rel : Arrow("edge",
                               sanitizeId(extractElementId(rel.source)),
                               sanitizeId(extractElementId(rel.target)),
                               OrElse(rel.description, Empty),
                               IF rel.relationshipType = <<"FLOW">> THEN <<"dashes">> ELSE Empty))

graphEdges(relationships) ==
  FilterMap(relationships, HasEnds,
            LAMBDA rel : Arrow("edge",
                               sanitizeId(extractElementId(rel.source)),
                               sanitizeId(extractElementId(rel.target)),
                               OrElse(rel.description, Empty),
                               IF rel.relationshipType = <<"FLOW">> THEN <<"dashes">> ELSE Empty))

generateGraphData(architecture) ==
  [nodes |-> graphNodes(architecture.actors, "business")
             \o graphNodes(architecture.applications, "application")
             \o graphNodes(architecture.components, "component")
             \o graphNodes(architecture.nodes, "technology")
             \o graphNodes(architecture.systemSoftware, "software"),
   edges |-> graphEdges(architecture.relationships)]

\* JSON.stringify(graphData) or the vis.js script embedding the same literals
GraphContent(architecture, format) ==
  LET graphData == generateGraphData(architecture) IN
  [form |-> IF format = "visjs" THEN "visjs" ELSE "json",
   lines |-> graphData.nodes \o graphData.edges]

\* a quotient of two integers, kept as a fraction
Fraction(num, den) == [num |-> num, den |-> den]

\* fault: the edges are counted once, as for a directed graph
calculateDensity_Directed(graphData) ==
  LET n == Len(graphData.nodes)
      m == Len(graphData.edges)
  IN IF n > 1 THEN Fraction(m, n * (n - 1)) ELSE Fraction(0, 1)

\* n > 1 ? (2 * m) / (n * (n - 1)) : 0
calculateDensity(graphData) ==
  LET n == Len(graphData.nodes)
      m == Len(graphData.edges)
  IN IF n > 1 THEN Fraction(2 * m, n * (n - 1)) ELSE Fraction(0, 1)

\* GraphRenderer.analyzeModel: the totals and the density (centrality and complexity
\* are left out)
graphAnalyzeModel(architecture) ==
  LET graphData == generateGraphData(architecture) IN
  [nodes |-> Len(graphData.nodes), edges |-> Len(graphData.edges),
   density |-> calculateDensity(graphData)]

----------------------------------------------------------------------------
(* PlantUML renderer *)

formatViewType(viewType) ==
  CASE viewType = "system-context" -> "System Context"
    [] viewType = "container" -> "Container View"
    [] viewType = "component" -> "Component View"
    [] viewType = "landscape" -> "Landscape View"
    [] OTHER -> "Architecture View"

getRelationshipTech(rel) ==
  IF rel.relationshipType = <<"FLOW">> THEN <<"Data Flow">>
  ELSE IF Truthy(rel.relationshipType) THEN rel.relationshipType
  ELSE Empty

getUMLArrow(type) ==
  IF type = <<"TRIGGERING">> THEN "->" ELSE "-->"

mapRelationshipToC4(rel) ==
  IF rel.relationshipType = <<"FLOW">> THEN [type |-> "Rel_D", defaultLabel |-> <<"data flows to">>]
  ELSE IF Truthy(rel.relationshipType) THEN [type |-> "Rel", defaultLabel |-> <<"interacts with">>]
  ELSE [type |-> "Rel", defaultLabel |-> <<"uses">>]

mapApplicationComponentToC4Container(component) ==
  IF component.componentType = <<"DATABASE">> THEN "ContainerDb" ELSE "Container"

BoundarySuffix == <<"_","b","o","u","n","d","a","r","y">>

\* the System_Boundary block of one application with the components naming it as parent
c4Boundary(architecture, app) ==
  LET id == sanitizeId(app.uid)
      appComponents == SelectSeq(architecture.components,
                         LAMBDA comp : comp.parentApplication = app.uid)
  IN <<Decl("System_Boundary", id \o BoundarySuffix, app.name \o <<" System">>, Empty)>>
     \o FilterMap(appComponents, HasUidAndName,
          LAMBDA comp : Decl(mapApplicationComponentToC4Container(comp),
                             sanitizeId(comp.uid), comp.name, id \o BoundarySuffix))

RECURSIVE ConcatAll(_)
ConcatAll(ss) == IF ss = <<>> THEN <<>> ELSE Head(ss) \o ConcatAll(Tail(ss))

plantumlRels(architecture, kindOf(_), labelOf(_), tagOf(_)) ==
  FilterMap(architecture.relationships, HasEnds,
            LAMBDA rel : Arrow(kindOf(rel),
                               sanitizeId(extractElementId(rel.source)),
                               sanitizeId(extractElementId(rel.target)),
                               labelOf(rel), tagOf(rel)))

generateC4Diagram(architecture, viewType) ==
  LET decl(elements, k) ==
        FilterMap(elements, HasUidAndName,
                  LAMBDA e : Decl(k, sanitizeId(e.uid), e.name, Empty))
      apps == SelectSeq(architecture.applications, HasUidAndName)
  IN
  <<Line("title", architecture.name \o <<" - ", formatViewType(viewType)>>)>>
  \o decl(architecture.actors, "Person")
  \o (IF viewType \in {"system-context", "landscape", "container", "component"}
      THEN decl(architecture.applications, "System") ELSE <<>>)
  \o (IF viewType = "container"
      THEN FilterMap(architecture.components, HasUidAndName,
             LAMBDA c : Decl(mapApplicationComponentToC4Container(c),
                             sanitizeId(c.uid), c.name, Empty))
           \o ConcatAll([i \in 1..Len(apps) |-> c4Boundary(architecture, apps[i])])
      ELSE IF viewType = "component"
      THEN decl(architecture.components, "Component")
      ELSE <<>>)
  \o decl(architecture.nodes, "System_Ext")
  \o plantumlRels(architecture,
        LAMBDA rel : mapRelationshipToC4(rel).type,
        LAMBDA rel : OrElse(rel.description, mapRelationshipToC4(rel).defaultLabel),
        getRelationshipTech)

generateDeploymentDiagram(architecture) ==
  LET nodes == SelectSeq(architecture.nodes, HasUidAndName)
      block(node) ==
        <<Decl("Deployment_Node", sanitizeId(node.uid), node.name, Empty)>>
        \o FilterMap(architecture.systemSoftware, HasUidAndName,
             LAMBDA sw : Decl("Container", sanitizeId(sw.uid), sw.name, sanitizeId(node.uid)))
  IN
  <<Line("title", architecture.name \o <<" - Deployment View">>)>>
  \o ConcatAll([i \in 1..Len(nodes) |-> block(nodes[i])])
  \o plantumlRels(architecture,
        LAMBDA rel : "Rel",
        LAMBDA rel : OrElse(rel.description, Empty),
        getRelationshipTech)

generateComponentDiagram(architecture) ==
  LET decl(elements, k, pkg) ==
        FilterMap(elements, HasUidAndName,
                  LAMBDA e : Decl(k, sanitizeId(e.uid), e.name, <<pkg>>))
  IN
  <<Line("title", architecture.name \o <<" - Component View">>)>>
  \o decl(architecture.actors, "actor", "Business Layer")
  \o decl(architecture.applications, "component", "Application Layer")
  \o decl(architecture.components, "component", "Application Layer")
  \o decl(architecture.nodes, "node", "Technology Layer")
  \o plantumlRels(architecture,
        LAMBDA rel : getUMLArrow(rel.relationshipType),
        LAMBDA rel : OrElse(rel.description, Empty),
        LAMBDA rel : Empty)

\* fault: only the source is looked up among the participants
isInteraction_SourceOnly(rel, participants) ==
  /\ HasEnds(rel)
  /\ sanitizeId(extractElementId(rel.source)) \in participants

\* the two nested conditions around an interaction line of generateSequenceDiagram
isInteraction(rel, participants) ==
  /\ HasEnds(rel)
  /\ sanitizeId(extractElementId(rel.source)) \in participants
  /\ sanitizeId(extractElementId(rel.target)) \in participants

generateSequenceDiagram(architecture) ==
  LET decl(elements) ==
        FilterMap(elements, HasUidAndName,
                  LAMBDA e : Decl("participant", sanitizeId(e.uid), e.name, Empty))
      declared == decl(architecture.actors) \o decl(architecture.applications)
                    \o decl(architecture.components)
      participants == {st.id : st \in Range(declared)}
      shown == SelectSeq(architecture.relationships,
                 LAMBDA rel : isInteraction(rel, participants))
  IN
  <<Line("title", architecture.name \o <<" - Sequence View">>)>>
  \o declared
  \o [step \in 1..Len(shown) |->
        Arrow(IF shown[step].relationshipType = <<"FLOW">> THEN "->>" ELSE "->",
              sanitizeId(extractElementId(shown[step].source)),
              sanitizeId(extractElementId(shown[step].target)),
              <<NumStr(step), ". ">> \o OrElse(shown[step].description, <<"interaction">>),
              Empty)]

PlantUMLContent(architecture, format, viewType) ==
  [form |-> "plantuml",
   lines |-> CASE format = "c4" -> generateC4Diagram(architecture, viewType)
               [] format = "deployment" -> generateDeploymentDiagram(architecture)
               [] format = "component" -> generateComponentDiagram(architecture)
               [] format = "sequence" -> generateSequenceDiagram(architecture)
               [] OTHER -> generateC4Diagram(architecture, "system-context")]

----------------------------------------------------------------------------
(* Structurizr renderer *)

Min(a, b) == IF a < b THEN a ELSE b

Max(a, b) == IF a > b THEN a ELSE b

\* Math.ceil(a / b) for a >= 0, b > 0
CeilDiv(a, b) == (a + b - 1) \div b

\* Array.prototype.slice(start, end) with a 0-based start
Slice(s, start, end) == SubSeq(s, start + 1, Min(end, Len(s)))

ContainerTypes == {<<"BACKEND">>, <<"FRONTEND">>, <<"DATABASE">>, <<"API_GATEWAY">>}

StructurizrElementOf(e, type) ==
  [id |-> e.uid, name |-> e.name, type |-> type,
   isDatabase |-> e.componentType = <<"DATABASE">>, nodeType |-> e.nodeType]

mapElements(elements, type) ==
  FilterMap(elements, HasUidAndName, LAMBDA e : StructurizrElementOf(e, type))

mapApplicationComponents(components) ==
  [containers |-> FilterMap(components,
                    LAMBDA c : HasUidAndName(c) /\ c.componentType \in ContainerTypes,
                    LAMBDA c : StructurizrElementOf(c, "container")),
   components |-> FilterMap(components,
                    LAMBDA c : HasUidAndName(c) /\ c.componentType \notin ContainerTypes,
                    LAMBDA c : StructurizrElementOf(c, "component"))]

mapRelationships(relationships) ==
  FilterMap(relationships, HasEnds,
            LAMBDA rel : [sourceId |-> extractElementId(rel.source),
                          targetId |-> extractElementId(rel.target),
                          description |-> OrElse(rel.description, Empty),
                          relationshipType |-> OrElse(rel.relationshipType, <<"ASSOCIATION">>),
                          technology |-> Empty])

\* fault: inference starts only from the second system on
inferActorSystemRelationships_SeveralSystems(people, systems) ==
  IF Len(people) > 0 /\ Len(systems) > 1
  THEN [k \in 1..(Len(people) * Len(systems)) |->
          [sourceId |-> people[((k - 1) \div Len(systems)) + 1].id,
           targetId |-> systems[((k - 1) % Len(systems)) + 1].id,
           description |-> <<"Uses">>,
           relationshipType |-> <<"SERVING">>,
           technology |-> <<"HTTPS">>]]
  ELSE <<>>

\* fault: nothing is inferred
inferActorSystemRelationships_None(people, systems) == <<>>

inferActorSystemRelationships(people, systems) ==
  IF Len(people) > 0 /\ Len(systems) > 0
  THEN [k \in 1..(Len(people) * Len(systems)) |->
          [sourceId |-> people[((k - 1) \div Len(systems)) + 1].id,
           targetId |-> systems[((k - 1) % Len(systems)) + 1].id,
           description |-> <<"Uses">>,
           relationshipType |-> <<"SERVING">>,
           technology |-> <<"HTTPS">>]]
  ELSE <<>>

mapToStructurizrModel(architecture) ==
  LET people == mapElements(architecture.actors, "person")
      systems == mapElements(architecture.applications, "system")
      mapped == mapApplicationComponents(architecture.components)
      relationships == mapRelationships(architecture.relationships)
  IN [name |-> architecture.name,
      people |-> people,
      systems |-> systems,
      containers |-> mapped.containers,
      components |-> mapped.components,
      services |-> mapElements(architecture.businessServices, "service")
                   \o mapElements(architecture.applicationServices, "service"),
      infrastructure |-> mapElements(architecture.nodes, "infrastructure")
                         \o mapElements(architecture.systemSoftware, "infrastructure")
                         \o mapElements(architecture.technologyServices, "service"),
      relationships |-> IF Len(relationships) = 0
                        THEN inferActorSystemRelationships(people, systems)
                        ELSE relationships]

ContainerSuffix == <<"_","c","o","n","t","a","i","n","e","r">>

\* fault: the share of a system is rounded down
systemContainersOf_Floor(m, systemIndex) ==
  LET containersPerSystem == Len(m.containers) \div Max(Len(m.systems), 1)
      startIndex == systemIndex * containersPerSystem
  IN Slice(m.containers, startIndex, startIndex + containersPerSystem)

\* the containers the DSL declares under the system at 0-based position systemIndex
systemContainersOf(m, systemIndex) ==
  LET containersPerSystem == CeilDiv(Len(m.containers), Max(Len(m.systems), 1))
      startIndex == systemIndex * containersPerSystem
  IN Slice(m.containers, startIndex, startIndex + containersPerSystem)

dslContainerBlock(m, systemIndex, container) ==
  LET containerId == sanitizeId(container.id)
      inside == IF systemIndex = 0 THEN m.components \o m.services ELSE <<>>
  IN <<Decl("container", containerId, container.name, sanitizeId(m.systems[systemIndex + 1].id))>>
     \o [i \in 1..Len(inside) |->
           Decl("component", sanitizeId(inside[i].id), inside[i].name, containerId)]

dslSystemBlock(m, systemIndex) ==
  LET system == m.systems[systemIndex + 1]
      systemId == sanitizeId(system.id)
      systemContainers == systemContainersOf(m, systemIndex)
  IN <<Decl("softwareSystem", systemId, system.name, Empty)>>
     \o ConcatAll([i \in 1..Len(systemContainers) |->
                     dslContainerBlock(m, systemIndex, systemContainers[i])])
     \o (IF Len(systemContainers) = 0
         THEN <<Decl("container", sanitizeId(system.id \o ContainerSuffix),
                     system.name \o <<" Core">>, systemId)>>
         ELSE <<>>)

generateStructurizrDSL(m) ==
  <<Line("workspace", m.name)>>
  \o [i \in 1..Len(m.people) |->
        Decl("person", sanitizeId(m.people[i].id), m.people[i].name, Empty)]
  \o ConcatAll([i \in 1..Len(m.systems) |-> dslSystemBlock(m, i - 1)])
  \o [i \in 1..Len(m.infrastructure) |->
        Decl("softwareSystem", sanitizeId(m.infrastructure[i].id), m.infrastructure[i].name,
             <<"tags Infrastructure">>)]
  \o [i \in 1..Len(m.relationships) |->
        Arrow("relationship", sanitizeId(m.relationships[i].sourceId),
              sanitizeId(m.relationships[i].targetId),
              m.relationships[i].description, m.relationships[i].technology)]
  \o (IF Len(m.systems) > 0
      THEN <<Decl("view systemContext", sanitizeId(m.systems[1].id), Empty, Empty)>>
           \o (IF Len(m.containers) > 0
               THEN <<Decl("view container", sanitizeId(m.systems[1].id), Empty, Empty)>>
                    \o (IF Len(m.components) > 0
                        THEN <<Decl("view component", sanitizeId(m.containers[1].id), Empty, Empty)>>
                        ELSE <<>>)
               ELSE <<>>)
      ELSE <<>>)

structurizrRel(rel) ==
  LET sourceId == sanitizeId(rel.sourceId)
      targetId == sanitizeId(rel.targetId)
  IN CASE rel.relationshipType = <<"FLOW">> ->
            Arrow("Rel", sourceId, targetId, rel.description, <<"flow">>)
       [] rel.relationshipType = <<"SERVING">> ->
            Arrow("Rel", sourceId, targetId, rel.description, <<"provides">>)
       [] rel.relationshipType = <<"ACCESS">> ->
            Arrow("Rel", sourceId, targetId, rel.description, <<"accesses">>)
       [] rel.relationshipType = <<"TRIGGERING">> ->
            Arrow("Rel_D", sourceId, targetId, rel.description, <<"triggers">>)
       [] OTHER -> Arrow("Rel", sourceId, targetId, rel.description, Empty)

generatePlantUML(m, viewType) ==
  LET decl(elements, k) ==
        [i \in 1..Len(elements) |->
           Decl(k, sanitizeId(elements[i].id), elements[i].name, Empty)]
      external(infra) == infra.nodeType = <<"SERVER">> \/ infra.nodeType = <<"CLOUD">>
  IN
  <<Line("title", m.name)>>
  \o decl(m.people, "Person")
  \o decl(m.systems, "System")
  \o (IF viewType = "container" \/ viewType = "component"
      THEN [i \in 1..Len(m.containers) |->
              Decl(IF m.containers[i].isDatabase THEN "ContainerDb" ELSE "Container",
                   sanitizeId(m.containers[i].id), m.containers[i].name, Empty)]
           \o decl(SelectSeq(m.infrastructure, external), "System_Ext")
      ELSE <<>>)
  \o (IF viewType = "component"
      THEN decl(m.components, "Component")
           \o decl(m.services, "Component")
           \o decl(SelectSeq(m.infrastructure, LAMBDA infra : ~external(infra)), "Component")
      ELSE <<>>)
  \o [i \in 1..Len(m.relationships) |-> structurizrRel(m.relationships[i])]

StructurizrContent(architecture, format, viewType) ==
  LET structurizrModel == mapToStructurizrModel(architecture) IN
  IF format = "plantuml"
  THEN [form |-> "plantuml", lines |-> generatePlantUML(structurizrModel, viewType)]
  ELSE [form |-> "dsl", lines |-> generateStructurizrDSL(structurizrModel)]

----------------------------------------------------------------------------
(* LikeC4 renderer *)

mapComponentKind(componentType) ==
  IF Falsy(componentType) THEN "component"
  ELSE IF componentType \in {<<"SERVICE">>, <<"MICROSERVICE">>} THEN "service"
  ELSE IF componentType \in {<<"DATABASE">>, <<"STORAGE">>} THEN "infrastructure"
  ELSE "component"

mapRelationshipKind(relationshipType) ==
  IF relationshipType \in {<<"FLOW">>, <<"TRIGGERING">>} THEN "calls"
  ELSE IF relationshipType \in {<<"COMPOSITION">>, <<"AGGREGATION">>} THEN "contains"
  ELSE "uses"

LikeC4ElementOf(e, kind, children) ==
  [id |-> sanitizeId(e.uid), name |-> e.name, description |-> e.description,
   kind |-> kind, children |-> children]

likeC4Map(elements, kind) ==
  FilterMap(elements, HasUidAndName, LAMBDA e : LikeC4ElementOf(e, kind, <<>>))

\* the components sliced to the application at 0-based position index of the filtered list
appComponentsOf(applications, components, index) ==
  LET componentsPerApp == CeilDiv(Len(components), Len(applications))
      startIndex == index * componentsPerApp
  IN Slice(components, startIndex, startIndex + componentsPerApp)

\* sanitizeId(comp.uid!) is applied before the uid filter: an absent uid raises a TypeError
mapApplicationsAsSystemsThrows(applications, components) ==
  LET apps == SelectSeq(applications, HasUidAndName) IN
  \E index \in 0..(Len(apps) - 1) :
    \E comp \in Range(appComponentsOf(applications, components, index)) : comp.uid = Undef

mapApplicationsAsSystems(applications, components) ==
  LET apps == SelectSeq(applications, HasUidAndName) IN
  [i \in 1..Len(apps) |->
     LikeC4ElementOf(apps[i], "system",
       FilterMap(appComponentsOf(applications, components, i - 1),
                 LAMBDA comp : sanitizeId(comp.uid) # Empty /\ Truthy(comp.name),
                 LAMBDA comp : LikeC4ElementOf(comp, mapComponentKind(comp.componentType), <<>>)))]

likeC4Relationships(relationships) ==
  FilterMap(relationships, HasEnds,
            LAMBDA rel : [source |-> sanitizeId(extractElementId(rel.source)),
                          target |-> sanitizeId(extractElementId(rel.target)),
                          title |-> rel.description,
                          kind |-> mapRelationshipKind(rel.relationshipType)])

mapToLikeC4Model(architecture) ==
  [name |-> architecture.name,
   elements |-> likeC4Map(architecture.actors, "actor")
                \o mapApplicationsAsSystems(architecture.applications, architecture.components)
                \o likeC4Map(architecture.businessServices \o architecture.applicationServices,
                             "service")
                \o likeC4Map(architecture.nodes, "infrastructure")
                \o likeC4Map(architecture.systemSoftware, "infrastructure")
                \o likeC4Map(architecture.technologyServices, "service"),
   relationships |-> likeC4Relationships(architecture.relationships)]

generateElementDSL(element) ==
  <<Decl(element.kind, element.id, element.name, Empty)>>
  \o [i \in 1..Len(element.children) |->
        Decl(element.children[i].kind, element.children[i].id, element.children[i].name,
             element.id)]

\* the members of a sequence in order of first appearance (iteration order of a Set)
RECURSIVE Distinct(_)
Distinct(s) ==
  IF s = <<>> THEN <<>>
  ELSE LET front == Distinct(SubSeq(s, 1, Len(s) - 1)) IN
       IF s[Len(s)] \in Range(front) THEN front ELSE Append(front, s[Len(s)])

generateLikeC4DSL(m, viewType) ==
  LET systems == SelectSeq(m.elements, LAMBDA e : e.kind = "system")
      elementKinds == Distinct([i \in 1..Len(m.elements) |-> m.elements[i].kind])
      relationshipKinds == Distinct([i \in 1..Len(m.relationships) |-> m.relationships[i].kind])
  IN
  [i \in 1..Len(elementKinds) |-> Line("element", <<elementKinds[i]>>)]
  \o [i \in 1..Len(relationshipKinds) |-> Line("relationship kind", <<relationshipKinds[i]>>)]
  \o ConcatAll([i \in 1..Len(m.elements) |-> generateElementDSL(m.elements[i])])
  \o [i \in 1..Len(m.relationships) |->
        Arrow("relationship", m.relationships[i].source, m.relationships[i].target,
              OrElse(m.relationships[i].title, Empty), <<m.relationships[i].kind>>)]
  \o (IF viewType = "landscape" \/ viewType = "system-context"
      THEN <<Line("view landscape", <<"Architecture Landscape">>)>> ELSE <<>>)
  \o (IF Len(systems) > 0 /\ (viewType = "system-context" \/ viewType = "container")
      THEN <<Decl("view systemContext", systems[1].id, <<"System Context">>, Empty)>>
           \o (IF Len(systems[1].children) > 0
               THEN <<Decl("view containers", systems[1].id, <<"Container View">>, Empty)>>
               ELSE <<>>)
      ELSE <<>>)

validateLikeC4Model(m) ==
  LET ids == [i \in 1..Len(m.elements) |-> m.elements[i].id] IN
  (IF Len(m.elements) = 0 THEN <<"Model contains no elements">> ELSE <<>>)
  \o (IF Len(m.relationships) = 0 /\ Len(m.elements) > 1
      THEN <<"Model elements have no relationships defined">> ELSE <<>>)
  \o (IF \E e \in Range(m.elements) : Falsy(e.description)
      THEN <<"elements missing descriptions">> ELSE <<>>)
  \o (IF \E i, j \in 1..Len(ids) : i < j /\ ids[i] = ids[j]
      THEN <<"Duplicate element IDs found">> ELSE <<>>)

LikeC4Content(architecture, viewType) ==
  [form |-> "dsl", lines |-> generateLikeC4DSL(mapToLikeC4Model(architecture), viewType)]

----------------------------------------------------------------------------
(* Renderers as the registry sees them *)

BuiltinNames == {"graph", "plantuml", "structurizr", "likec4"}

supportedFormatsOf(name) ==
  CASE name = "graph" -> {"json", "visjs"}
    [] name = "plantuml" -> {"c4", "deployment", "component", "sequence"}
    [] name = "structurizr" -> {"dsl", "plantuml"}
    [] name = "likec4" -> {"dsl"}
    [] OTHER -> {"txt"}

\* a renderer object: validate is AbstractRenderer's unless the plug-in overrides it
Builtin(name) ==
  [name |-> name, supportedFormats |-> supportedFormatsOf(name),
   validateMode |-> "base", renderMode |-> name]

Plugin(validateMode, renderMode) ==
  [name |-> "custom", supportedFormats |-> supportedFormatsOf("custom"),
   validateMode |-> validateMode, renderMode |-> renderMode]

supportsFormat(renderer, format) == format \in renderer.supportedFormats

InvalidModelError ==
  [code |-> "INVALID_MODEL", message |-> "Architecture model must have uid and name"]

PluginError(n) == [code |-> "PLUGIN", message |-> IF n = 1 THEN "first problem" ELSE "second problem"]

\* renderer.validate(architecture); threw marks an exception leaving validate
validate(renderer, architecture) ==
  CASE renderer.validateMode = "throws" ->
         [threw |-> TRUE, isValid |-> FALSE, errors |-> <<>>]
    [] renderer.validateMode = "twoErrors" ->
         [threw |-> FALSE, isValid |-> FALSE, errors |-> <<PluginError(1), PluginError(2)>>]
    [] OTHER ->
         IF Falsy(architecture.uid) \/ Falsy(architecture.name)
         THEN [threw |-> FALSE, isValid |-> FALSE, errors |-> <<InvalidModelError>>]
         ELSE [threw |-> FALSE, isValid |-> TRUE, errors |-> <<>>]

createDiagramMetadata(architecture, viewType, renderingTime) ==
  LET businessCount == Len(architecture.actors) + Len(architecture.businessServices)
      applicationCount == Len(architecture.applications) + Len(architecture.components)
                            + Len(architecture.applicationServices)
      technologyCount == Len(architecture.nodes) + Len(architecture.technologyServices)
                            + Len(architecture.systemSoftware)
  IN [title |-> architecture.name,
      viewType |-> viewType,
      elementCount |-> businessCount + applicationCount + technologyCount,
      relationshipCount |-> Len(architecture.relationships),
      renderingTime |-> renderingTime,
      nodeCount |-> -1,
      edgeCount |-> -1,
      warnings |-> <<>>]

NoMetadata == createDiagramMetadata(
  [name |-> Empty, actors |-> <<>>, businessServices |-> <<>>, applications |-> <<>>,
   components |-> <<>>, applicationServices |-> <<>>, nodes |-> <<>>,
   technologyServices |-> <<>>, systemSoftware |-> <<>>, relationships |-> <<>>], "none", 0)

\* the content a renderer produces
ContentOf(renderer, architecture, format, viewType) ==
  CASE renderer.renderMode = "graph" -> GraphContent(architecture, format)
    [] renderer.renderMode = "plantuml" -> PlantUMLContent(architecture, format, viewType)
    [] renderer.renderMode = "structurizr" -> StructurizrContent(architecture, format, viewType)
    [] renderer.renderMode = "likec4" -> LikeC4Content(architecture, viewType)
    [] OTHER -> [form |-> "custom", lines |-> <<>>]

\* whether renderer.render raises an exception
renderThrows(renderer, architecture) ==
  \/ renderer.renderMode = "throws"
  \/ /\ renderer.renderMode = "likec4"
     /\ mapApplicationsAsSystemsThrows(architecture.applications, architecture.components)

MetadataOf(renderer, architecture, format, viewType, renderingTime) ==
  LET metadata == createDiagramMetadata(architecture, viewType, renderingTime) IN
  CASE renderer.renderMode = "graph" ->
         [metadata EXCEPT !.nodeCount = Len(generateGraphData(architecture).nodes),
                          !.edgeCount = Len(generateGraphData(architecture).edges)]
    [] renderer.renderMode = "likec4" ->
         [metadata EXCEPT !.warnings = validateLikeC4Model(mapToLikeC4Model(architecture))]
    [] OTHER -> metadata

\* fault: the generation time is written into the content
render_StampedContent(renderer, architecture, format, viewType, startTime, endTime) ==
  [kind |-> "next",
   content |-> [ContentOf(renderer, architecture, format, viewType) EXCEPT
                  !.lines = <<Line("title", <<"generated ", NumStr(endTime)>>)>> \o @],
   format |-> IF renderer.renderMode = "likec4" THEN "dsl" ELSE format,
   rendererName |-> renderer.name,
   timestamp |-> endTime,
   metadata |-> MetadataOf(renderer, architecture, format, viewType, endTime - startTime),
   message |-> <<>>]

\* renderer.render(architecture, options), started at startTime and finished at endTime
render(renderer, architecture, format, viewType, startTime, endTime) ==
  [kind |-> "next",
   content |-> ContentOf(renderer, architecture, format, viewType),
   format |-> IF renderer.renderMode = "likec4" THEN "dsl" ELSE format,
   rendererName |-> renderer.name,
   timestamp |-> endTime,
   metadata |-> MetadataOf(renderer, architecture, format, viewType, endTime - startTime),
   message |-> <<>>]

Failure(kind, message) ==
  [kind |-> kind, content |-> NoContent, format |-> "", rendererName |-> "",
   timestamp |-> 0, metadata |-> NoMetadata, message |-> message]

NoOutput == Failure("none", <<>>)

----------------------------------------------------------------------------
(* RendererRegistryService *)

\* fault: a name that is taken keeps its first renderer
renderersSet_KeepFirst(reg, renderer) ==
  [n \in DOMAIN reg \cup {renderer.name} |->
     IF n \in DOMAIN reg THEN reg[n] ELSE renderer]

\* this.renderers.set(renderer.name, renderer)
renderersSet(reg, renderer) ==
  [n \in DOMAIN reg \cup {renderer.name} |->
     IF n = renderer.name THEN renderer ELSE reg[n]]

\* this.renderers.delete(name)
renderersDelete(reg, name) == [n \in DOMAIN reg \ {name} |-> reg[n]]

\* the null that getRenderer answers for a name without renderer
NullRenderer == [name |-> "", supportedFormats |-> {}, validateMode |-> "", renderMode |-> ""]

\* this.renderers.get(name) || null
getRenderer(reg, name) == IF name \in DOMAIN reg THEN reg[name] ELSE NullRenderer

RECURSIVE Join(_, _)
\* Array.prototype.join(sep)
Join(msgs, sep) ==
  IF msgs = <<>> THEN <<>>
  ELSE IF Len(msgs) = 1 THEN <<msgs[1]>>
  ELSE <<msgs[1], sep>> \o Join(Tail(msgs), sep)

\* what a call of the registry did with the renderer
NoProbe == [looked |-> FALSE, validated |-> FALSE, threw |-> FALSE, isValid |-> FALSE,
            errors |-> <<>>, rendered |-> FALSE, renderThrew |-> FALSE]

\* throwError(`Renderer '${rendererName}' not found`)
rendererNotFound(rendererName) ==
  Failure("error", <<"Renderer '", rendererName, "' ", "not found">>)

\* fault: only the first validation error is reported
validationFailed_FirstOnly(errors) ==
  Failure("error", <<"Architecture validation failed: ", errors[1].message>>)

\* throwError(`Architecture validation failed: ${errors.map(e => e.message).join(', ')}`)
validationFailed(errors) ==
  Failure("error",
          <<"Architecture validation failed: ">>
            \o Join([i \in 1..Len(errors) |-> errors[i].message], ", "))

\* fault: the exception is passed on without the label
renderingFailed_Unlabelled(error) == Failure("error", <<error>>)

\* catch (error) { return throwError(`Rendering failed: ${error}`) }
renderingFailed(error) == Failure("error", <<"Rendering failed: ", error>>)

\* RendererRegistryService.render: the result and what it called on the renderer
registryRender(reg, rendererName, architecture, format, viewType, startTime, endTime) ==
  IF rendererName \notin DOMAIN reg
  THEN [result |-> rendererNotFound(rendererName),
        probe |-> [NoProbe EXCEPT !.looked = TRUE]]
  ELSE
    LET renderer == reg[rendererName]
        validation == validate(renderer, architecture)
        seen == [NoProbe EXCEPT !.looked = TRUE, !.validated = TRUE,
                                !.threw = validation.threw,
                                !.isValid = validation.isValid, !.errors = validation.errors]
    IN
    IF validation.threw
    THEN [result |-> Failure("throw", <<"validate threw">>), probe |-> seen]
    ELSE IF ~validation.isValid
    THEN [result |-> validationFailed(validation.errors), probe |-> seen]
    ELSE IF renderThrows(renderer, architecture)
    THEN [result |-> renderingFailed("render threw"),
          probe |-> [seen EXCEPT !.rendered = TRUE, !.renderThrew = TRUE]]
    ELSE [result |-> render(renderer, architecture, format, viewType, startTime, endTime),
          probe |-> [seen EXCEPT !.rendered = TRUE]]

----------------------------------------------------------------------------
(* DiagramService *)

isArchitectureModel(obj) == obj.uid # Undef /\ obj.name # Undef

\* fault: the relationships are left out of the converted model
convertToArchitectureModel_NoRelationships(architecture, now) ==
  [architecture EXCEPT
     !.uid = OrElse(architecture.uid, <<"default-architecture-", NumStr(now)>>),
     !.name = OrElse(architecture.name, <<"Unnamed Architecture">>),
     !.description = OrElse(architecture.description, Empty),
     !.relationships = <<>>]

\* the object literal of convertToArchitectureModel; the collections of a layer travel
\* with their layer object
convertToArchitectureModel(architecture, now) ==
  [uid |-> OrElse(architecture.uid, <<"default-architecture-", NumStr(now)>>),
   name |-> OrElse(architecture.name, <<"Unnamed Architecture">>),
   description |-> OrElse(architecture.description, Empty),
   version |-> architecture.version,
   actors |-> architecture.actors,
   businessServices |-> architecture.businessServices,
   applications |-> architecture.applications,
   components |-> architecture.components,
   applicationServices |-> architecture.applicationServices,
   nodes |-> architecture.nodes,
   systemSoftware |-> architecture.systemSoftware,
   technologyServices |-> architecture.technologyServices,
   relationships |-> architecture.relationships,
   metadata |-> architecture.metadata]

\* DiagramService.renderDiagram: normalise, then delegate; a synchronous exception of the
\* registry is caught and rethrown on the returned observable
renderDiagram(reg, architecture, rendererName, format, viewType, startTime, endTime) ==
  LET m == IF isArchitectureModel(architecture) THEN architecture
           ELSE convertToArchitectureModel(architecture, startTime)
      r == registryRender(reg, rendererName, m, format, viewType, startTime, endTime)
  IN IF r.result.kind = "throw"
     THEN [r EXCEPT !.result = Failure("error", r.result.message)]
     ELSE r

----------------------------------------------------------------------------
(* ArchitectureModelAnalyzer *)

\* the sum of the lengths of the collections of the three layers
calculateTotalElements(m) ==
  LET business == Len(m.actors) + Len(m.businessServices)
      application == Len(m.applications) + Len(m.components) + Len(m.applicationServices)
      technology == Len(m.nodes) + Len(m.technologyServices) + Len(m.systemSoftware)
  IN business + application + technology

\* an entry of ValidationResult.errors or .warnings; index is the relationship's position,
\* printed in the message, and -1 for an entry about the model itself
Finding(code, severity, index) == [code |-> code, severity |-> severity, index |-> index]

\* fault: only the source of a relationship is examined
relationshipErrors_SourceOnly(rel, index) ==
  IF ~EndTruthy(rel.source) THEN <<Finding("MISSING_SOURCE", "error", index)>> ELSE <<>>

\* the body of model.relationships?.forEach((rel, index) => ...)
relationshipErrors(rel, index) ==
  (IF ~EndTruthy(rel.source) THEN <<Finding("MISSING_SOURCE", "error", index)>> ELSE <<>>)
    \o (IF ~EndTruthy(rel.target) THEN <<Finding("MISSING_TARGET", "error", index)>> ELSE <<>>)

\* ArchitectureModelAnalyzer.validate
analyzerValidate(m) ==
  LET headErrors ==
        (IF Falsy(m.uid) THEN <<Finding("MISSING_UID", "error", -1)>> ELSE <<>>)
          \o (IF Falsy(m.name) THEN <<Finding("MISSING_NAME", "error", -1)>> ELSE <<>>)
      errors == headErrors
                  \o ConcatAll([i \in 1..Len(m.relationships) |->
                                  relationshipErrors(m.relationships[i], i - 1)])
      warnings == IF calculateTotalElements(m) = 0
                  THEN <<Finding("EMPTY_MODEL", "warning", -1)>> ELSE <<>>
  IN [isValid |-> Len(errors) = 0, errors |-> errors, warnings |-> warnings]

\* DiagramService.validateArchitecture: a payload that is not yet a model is converted first
validateArchitecture(architecture, now) ==
  analyzerValidate(IF isArchitectureModel(architecture) THEN architecture
                   ELSE convertToArchitectureModel(architecture, now))

----------------------------------------------------------------------------
(* PlantUMLService *)

\* serverConfig.timeout, in milliseconds
serverTimeout == 10000

\* serverConfig.maxRetries
maxRetries == 2

\* a character above U+00FF, written by its code point
NonLatin1Chars == {"U+20AC"}

\* !code?.trim()
IsBlank(code) == code = Undef \/ \A i \in 1..Len(code) : code[i] \in {" ", "\n", "\t"}

\* btoa(s) raises InvalidCharacterError on a character above U+00FF
btoaThrows(s) == \E i \in 1..Len(s) : s[i] \in NonLatin1Chars

\* btoa(s): four base64 characters for every three characters of s; a group of four is
\* written as the characters it encodes
btoa(s) == [g \in 1..CeilDiv(Len(s), 3) |-> SubSeq(s, 3 * g - 2, Min(3 * g, Len(s)))]

\* `${btoa(code).substring(0, 16)}_${options.format}`: sixteen characters are four groups
getCacheKey(code, options) ==
  [hash |-> SubSeq(btoa(code), 1, Min(4, Len(btoa(code)))), format |-> options.format]

PlantUMLOptions(format, timeout, useCache) ==
  [format |-> format, timeout |-> timeout, useCache |-> useCache]

\* a PlantUMLDiagram; blob names the request that fetched it, 0 when there is none
createSuccessDiagram(code, options, blob) ==
  [code |-> code, format |-> options.format, success |-> TRUE, error |-> "", blob |-> blob]

createErrorDiagram(code, options, error) ==
  [code |-> code, format |-> options.format, success |-> FALSE, error |-> error, blob |-> 0]

NoDiagram == [code |-> Undef, format |-> "", success |-> FALSE, error |-> "", blob |-> 0]

\* the ways a request can fail: no connection, an error status, the timeout operator
HttpFailures == {"status 0", "status 500", "TimeoutError"}

\* the message handleRenderError puts into the error it rethrows
handleRenderError(error) ==
  CASE error = "status 0" -> "Server not accessible"
    [] error = "status 500" -> "Server error: 500"
    [] error = "TimeoutError" -> "Request timeout after 10000ms"
    [] OTHER -> "Unknown error occurred"

\* what the caller of renderDiagram has got so far: an exception (throw), an error or a
\* value on the returned observable, or nothing yet
Notified(kind, diagram, message) == [kind |-> kind, diagram |-> diagram, message |-> message]

\* one renderDiagram call: pc is import while the encoder module loads, http while a
\* request is out, done afterwards; requests counts the HTTP requests issued, limit is
\* the time the timeout operator allows the current one
PlantUMLCall(code, options, pc, notified) ==
  [code |-> code, options |-> options, pc |-> pc, requests |-> 0, limit |-> 0,
   notified |-> notified]

\* fault: the retry operator resubscribes on every error
mayRetry_Always(requests) == TRUE

\* retry(this.serverConfig.maxRetries): resubscribe while no more than maxRetries errors
\* have been seen
mayRetry(requests) == requests <= maxRetries

\* fault: every diagram that arrives is stored
mayStore_Always(options, diagram) == TRUE

\* options.useCache !== false && diagram.success
mayStore(options, diagram) == options.useCache # "false" /\ diagram.success

\* timeout(options.timeout || this.serverConfig.timeout)
timeoutOf(options) == IF options.timeout # 0 THEN options.timeout ELSE serverTimeout

\* the synchronous part of renderDiagram
renderDiagramSync(cache, code, options) ==
  IF IsBlank(code)
  THEN PlantUMLCall(code, options, "done",
                    Notified("error", NoDiagram, "PlantUML code is required"))
  ELSE IF btoaThrows(code)
  THEN PlantUMLCall(code, options, "done",
                    Notified("throw", NoDiagram, "InvalidCharacterError"))
  ELSE IF options.useCache # "false" /\ getCacheKey(code, options) \in DOMAIN cache
  THEN PlantUMLCall(code, options, "done",
                    Notified("next", cache[getCacheKey(code, options)], ""))
  ELSE PlantUMLCall(code, options, "import", Notified("none", NoDiagram, ""))

\* the service after construction: empty cache, no call made
PlantUMLIdle == [cache |-> <<>>, calls |-> <<>>, available |-> FALSE]

----------------------------------------------------------------------------
(* DiagramViewerComponent *)

\* the delay of the setTimeout in onCodeEdit, in ms
debounce == 1000

\* the tabs followed here, one per renderer, the first one of the registry and plantuml
TabNames == {"structurizr", "plantuml"}

\* tab.plantUMLDiagram: the diagram of the service with the display mode it was asked for
Shown(plantUMLDiagram, displayMode) ==
  [diagram |-> plantUMLDiagram, displayMode |-> displayMode]

\* tab.plantUMLDiagram = undefined
NotShown == Shown(NoDiagram, "undefined")

\* a tab as setupRendererTabs makes it; isRendering is not set, which reads as false
RendererTab(name) ==
  [name |-> name, currentFormat |-> IF name = "plantuml" THEN "c4" ELSE "dsl",
   editableCode |-> Empty, isRendering |-> FALSE, plantUMLDiagram |-> NotShown,
   plantUMLDisplayMode |-> "iframe"]

\* codeEditTimeout: null, or the handle of a timer and the tab its callback captured
NoTimeout == [set |-> FALSE, pending |-> FALSE, tab |-> "", remaining |-> 0]

\* the component after ngOnInit has set up the tabs: the first tab is active. subscribers
\* holds, for each call made on the PlantUML service, the tab and the display mode its
\* callbacks captured; arrived is the call whose callback ran last, 0 before the first
ViewerIdle ==
  [activeRendererTab |-> "structurizr",
   rendererTabs |-> [n \in TabNames |-> RendererTab(n)],
   loaded |-> FALSE, renderError |-> FALSE, codeEditTimeout |-> NoTimeout,
   subscribers |-> <<>>, arrived |-> 0, edits |-> 0]

\* renderOptions of renderPlantUMLForTabWithMode
renderOptions(displayMode) ==
  PlantUMLOptions(IF displayMode = "image" THEN "png" ELSE "svg", 15000, "false")

\* fault: a response for a text that is no longer the tab's text is dropped
subscribeNext_CurrentOnly(tab, plantUMLDiagram, displayMode) ==
  IF plantUMLDiagram.code = tab.editableCode
  THEN [tab EXCEPT !.plantUMLDiagram = Shown(plantUMLDiagram, displayMode),
                   !.isRendering = FALSE]
  ELSE [tab EXCEPT !.isRendering = FALSE]

\* the next callback of the subscription
subscribeNext(tab, plantUMLDiagram, displayMode) ==
  [tab EXCEPT !.plantUMLDiagram = Shown(plantUMLDiagram, displayMode),
              !.isRendering = FALSE]

\* the error callback of the subscription
subscribeError(tab, message, displayMode) ==
  [tab EXCEPT !.plantUMLDiagram =
                 Shown(createErrorDiagram(tab.editableCode, renderOptions(displayMode),
                                          <<displayMode, " rendering failed: ", message>>),
                       displayMode),
              !.isRendering = FALSE]

\* renderPlantUMLForTabWithMode(tab, displayMode) up to the return of subscribe: the
\* component and the service afterwards. An exception of renderDiagram leaves the method
\* after isRendering was set.
renderPlantUMLForTabWithMode(v, p, name, displayMode) ==
  LET tab == v.rendererTabs[name] IN
  IF tab.editableCode = Empty
  THEN [viewer |-> v, plantuml |-> p, threw |-> FALSE]
  ELSE
    LET call == renderDiagramSync(p.cache, tab.editableCode, renderOptions(displayMode))
        kind == call.notified.kind
        loading == [tab EXCEPT !.isRendering = TRUE]
        after == CASE kind = "next" -> subscribeNext(loading, call.notified.diagram, displayMode)
                   [] kind = "error" -> subscribeError(loading, call.notified.message, displayMode)
                   [] OTHER -> loading
    IN [viewer |->
          [v EXCEPT !.rendererTabs[name] = after,
                    !.renderError = IF kind = "next" THEN FALSE
                                    ELSE IF kind = "error" THEN TRUE ELSE @,
                    !.subscribers = Append(@, [tab |-> name, displayMode |-> displayMode]),
                    !.arrived = IF kind \in {"next", "error"} THEN Len(p.calls) + 1 ELSE @],
        plantuml |-> [p EXCEPT !.calls = Append(@, call)],
        threw |-> kind = "throw"]

\* renderPlantUMLForTab(tab): the tab's display mode, 'iframe' by default
renderPlantUMLForTab(v, p, name) ==
  renderPlantUMLForTabWithMode(v, p, name, v.rendererTabs[name].plantUMLDisplayMode)

\* what the subscription of call c does when the service has taken a step on it
deliver(v, c, call) ==
  IF call.pc # "done" THEN v
  ELSE [v EXCEPT !.rendererTabs[v.subscribers[c].tab] =
                    subscribeNext(@, call.notified.diagram, v.subscribers[c].displayMode),
                 !.renderError = FALSE,
                 !.arrived = c]

----------------------------------------------------------------------------
(* ArchitectureDashboardComponent *)

\* an architecture as the component holds it: an entry of the list, or the complete
\* architecture that getCompleteArchitecture answered
Architecture(uid, complete) == [uid |-> uid, complete |-> complete]

\* the value null of the signals
NoArchitecture == Architecture("null", FALSE)

\* the component after construction; fetches holds, per call of selectArchitecture, the
\* uid it asked for and whether its await is still pending
DashboardIdle ==
  [selectedArchitecture |-> NoArchitecture, analysisData |-> "null",
   isAnalyzing |-> FALSE, fetches |-> <<>>]

\* selectArchitecture up to its await
selectArchitecture(d, architecture) ==
  [d EXCEPT !.isAnalyzing = TRUE,
            !.selectedArchitecture = architecture,
            !.fetches = Append(@, [uid |-> architecture.uid, pc |-> "await"])]

\* selectArchitecture after the await of fetch f: the try block for a value, the catch
\* block for a rejection, and finally
resumeSelectArchitecture(d, f, outcome) ==
  LET completeArch == Architecture(d.fetches[f].uid, TRUE) IN
  [d EXCEPT !.analysisData = IF outcome = "value" THEN completeArch.uid ELSE @,
            !.selectedArchitecture = IF outcome = "value" THEN completeArch ELSE @,
            !.isAnalyzing = FALSE,
            !.fetches[f].pc = outcome]

----------------------------------------------------------------------------
(* Inputs *)

Collections == {"actors", "applications", "components", "businessServices",
                "applicationServices", "nodes", "systemSoftware", "technologyServices"}

\* the uid a well-formed element of each collection carries
GoodUid(coll) ==
  CASE coll = "actors" -> <<"a","c","t","o","r","-","1">>
    [] coll = "applications" -> <<"a","p","p","-","1">>
    [] coll = "components" -> <<"c",".","1">>
    [] coll = "businessServices" -> <<"b","s",":","1">>
    [] coll = "applicationServices" -> <<"a","s","/","1">>
    [] coll = "nodes" -> <<"n","_","1">>
    [] coll = "systemSoftware" -> <<"s","w"," ","1">>
    [] OTHER -> <<"t","s","1">>

Element(uid, name, componentType) ==
  [uid |-> uid, name |-> name, description |-> Undef, componentType |-> componentType,
   parentApplication |-> Undef, nodeType |-> Undef]

\* the elements a payload may carry in a collection: well-formed, or lacking uid or name
ElementPool(coll) ==
  {Element(GoodUid(coll), <<"N">>, Undef),
   Element(Undef, <<"N">>, Undef)}
  \cup (IF coll \in {"actors", "applications", "components", "nodes"}
        THEN {Element(GoodUid(coll), Undef, Undef)}
        ELSE {})
  \cup (IF coll = "components"
        THEN {Element(GoodUid(coll), <<"N">>, <<"BACKEND">>), Element(Empty, <<"N">>, Undef)}
        ELSE {})

Relationship(source, target, description, relationshipType) ==
  [source |-> source, target |-> target, description |-> description,
   relationshipType |-> relationshipType]

Dangling == <<"z",".","9">>

RelationshipPool ==
  {Relationship(ObjEnd(GoodUid("actors")), ObjEnd(GoodUid("applications")), <<"Uses">>, Undef),
   Relationship(StrEnd(GoodUid("actors")), StrEnd(GoodUid("applications")), Undef, <<"FLOW">>),
   Relationship(ObjEnd(GoodUid("actors")), StrEnd(Dangling), <<"Uses">>, Undef),
   Relationship(ObjEnd(Undef), ObjEnd(GoodUid("applications")), <<"Uses">>, Undef),
   Relationship(StrEnd(Undef), ObjEnd(GoodUid("applications")), <<"Uses">>, Undef)}

DefaultHeader == [uid |-> <<"m","1">>, name |-> <<"Arch">>]

HeaderPool ==
  {[uid |-> Empty, name |-> <<"Arch">>],
   [uid |-> <<"m","1">>, name |-> Undef],
   [uid |-> Undef, name |-> Undef]}

PluginPool == {Plugin("twoErrors", "ok"), Plugin("base", "throws"), Plugin("throws", "ok")}

Request(rendererName, format, viewType) ==
  [rendererName |-> rendererName, format |-> format, viewType |-> viewType]

\* DiagramService passes viewType 'landscape' unless the caller's options override it
Requests ==
  {Request("graph", "json", "landscape"), Request("graph", "visjs", "landscape"),
   Request("graph", "unsupported", "landscape"),
   Request("plantuml", "c4", "landscape"), Request("plantuml", "c4", "container"),
   Request("plantuml", "deployment", "landscape"),
   Request("plantuml", "component", "landscape"), Request("plantuml", "sequence", "landscape"),
   Request("structurizr", "dsl", "landscape"), Request("structurizr", "plantuml", "component"),
   Request("likec4", "dsl", "landscape"), Request("likec4", "dsl", "container"),
   Request("custom", "txt", "landscape"), Request("unknown", "json", "landscape")}

NoRequest == Request("", "", "")

EmptyModel ==
  [uid |-> DefaultHeader.uid, name |-> DefaultHeader.name, description |-> Undef,
   version |-> Undef, metadata |-> Undef,
   actors |-> <<>>, applications |-> <<>>, components |-> <<>>, businessServices |-> <<>>,
   applicationServices |-> <<>>, nodes |-> <<>>, systemSoftware |-> <<>>,
   technologyServices |-> <<>>, relationships |-> <<>>]

InitialRegistry == [n \in BuiltinNames |-> Builtin(n)]

ElementCount(m) ==
  Len(m.actors) + Len(m.applications) + Len(m.components) + Len(m.businessServices)
    + Len(m.applicationServices) + Len(m.nodes) + Len(m.systemSoftware)
    + Len(m.technologyServices)

\* how far the scenario is from the initial one
ScenarioSize ==
  ElementCount(model) + Len(model.relationships)
    + (IF model.uid = DefaultHeader.uid /\ model.name = DefaultHeader.name THEN 0 ELSE 1)
    + Cardinality(BuiltinNames \ DOMAIN registry)
    + Cardinality(DOMAIN registry \ BuiltinNames)

\* no helper has been called
NoCall == [op |-> "none"]

----------------------------------------------------------------------------
(* State machine *)

\* the renderer layer right after construction, nothing rendered
RendererIdle ==
  /\ model = EmptyModel
  /\ registry = InitialRegistry
  /\ req = NoRequest
  /\ out = NoOutput
  /\ prev = NoOutput
  /\ clock = 0
  /\ probe = NoProbe

Init ==
  /\ RendererIdle
  /\ plantuml = PlantUMLIdle
  /\ viewer = ViewerIdle
  /\ dashboard = DashboardIdle
  /\ util = NoCall

Building == out.kind = "none" /\ ScenarioSize < MaxSize

\* the backend's payload gains an element
AddElement(coll, e) ==
  /\ Building
  /\ model' = [model EXCEPT ![coll] = Append(@, e)]
  /\ UNCHANGED <<registry, req, out, prev, clock, probe, util, plantuml, viewer, dashboard>>

AddRelationship(rel) ==
  /\ Building
  /\ model' = [model EXCEPT !.relationships = Append(@, rel)]
  /\ UNCHANGED <<registry, req, out, prev, clock, probe, util, plantuml, viewer, dashboard>>

\* the payload arrives without uid or name
SetHeader(h) ==
  /\ Building
  /\ model.uid = DefaultHeader.uid /\ model.name = DefaultHeader.name
  /\ model' = [model EXCEPT !.uid = h.uid, !.name = h.name]
  /\ UNCHANGED <<registry, req, out, prev, clock, probe, util, plantuml, viewer, dashboard>>

registerRenderer(renderer) ==
  /\ Building
  /\ registry' = renderersSet(registry, renderer)
  /\ UNCHANGED <<model, req, out, prev, clock, probe, util, plantuml, viewer, dashboard>>

unregisterRenderer(name) ==
  /\ Building
  /\ registry' = renderersDelete(registry, name)
  /\ UNCHANGED <<model, req, out, prev, clock, probe, util, plantuml, viewer, dashboard>>

\* DiagramService.renderDiagram(model, r.rendererName, r.format, {viewType}) taking d ms
CallRenderDiagram(r, d) ==
  /\ clock + d <= MaxClock
  /\ LET call == renderDiagram(registry, model, r.rendererName, r.format, r.viewType,
                               clock, clock + d)
     IN /\ out' = call.result
        /\ probe' = call.probe
  /\ prev' = out
  /\ req' = r
  /\ clock' = clock + d
  /\ UNCHANGED <<model, registry, util, plantuml, viewer, dashboard>>

\* RendererRegistryService.render(r.rendererName, model, {format, viewType}) taking d ms
CallRegistryRender(r, d) ==
  /\ clock + d <= MaxClock
  /\ LET call == registryRender(registry, r.rendererName, model, r.format, r.viewType,
                                clock, clock + d)
     IN /\ out' = call.result
        /\ probe' = call.probe
  /\ prev' = out
  /\ req' = r
  /\ clock' = clock + d
  /\ UNCHANGED <<model, registry, util, plantuml, viewer, dashboard>>

RenderDiagram(r, d) == out.kind = "none" /\ CallRenderDiagram(r, d)

RegistryRender(r, d) == out.kind = "none" /\ CallRegistryRender(r, d)

\* the re-render button: the same call again on the unmodified model
RenderDiagramAgain(d) ==
  out.kind # "none" /\ prev.kind = "none" /\ CallRenderDiagram(req, d)

RegistryRenderAgain(d) ==
  out.kind # "none" /\ prev.kind = "none" /\ CallRegistryRender(req, d)

Next ==
  \/ \E coll \in Collections : \E e \in ElementPool(coll) : AddElement(coll, e)
  \/ \E rel \in RelationshipPool : AddRelationship(rel)
  \/ \E h \in HeaderPool : SetHeader(h)
  \/ \E renderer \in PluginPool : registerRenderer(renderer)
  \/ \E name \in BuiltinNames : unregisterRenderer(name)
  \/ \E r \in Requests : \E d \in 0..1 : RenderDiagram(r, d)
  \/ \E r \in Requests : \E d \in 0..1 : RegistryRender(r, d)

Spec == Init /\ [][Next]_vars

\* the same machine with a second render of the same request
NextTwice ==
  \/ Next
  \/ \E d \in 0..1 : RenderDiagramAgain(d)
  \/ \E d \in 0..1 : RegistryRenderAgain(d)

SpecTwice == Init /\ [][NextTwice]_vars

----------------------------------------------------------------------------
(* Nesting of components under systems *)

\* the i-th application of a payload: complete, or without a name
ApplicationVariants(i) ==
  {Element(<<"s", NumStr(i)>>, <<"N">>, Undef), Element(<<"s", NumStr(i)>>, Undef, Undef)}

\* the i-th component: a plain component, a container, or a container without a name
ComponentVariants(i) ==
  {Element(<<"c", NumStr(i)>>, <<"N">>, Undef),
   Element(<<"c", NumStr(i)>>, <<"N">>, <<"BACKEND">>),
   Element(<<"c", NumStr(i)>>, Undef, <<"BACKEND">>)}

RECURSIVE ApplicationSeqs(_)
\* the application lists of at most n members
ApplicationSeqs(n) ==
  IF n = 0 THEN {<<>>}
  ELSE LET shorter == ApplicationSeqs(n - 1) IN
       shorter \cup {Append(t, e) : t \in {x \in shorter : Len(x) = n - 1},
                                   e \in ApplicationVariants(n)}

RECURSIVE ComponentSeqs(_)
\* the component lists of at most n members
ComponentSeqs(n) ==
  IF n = 0 THEN {<<>>}
  ELSE LET shorter == ComponentSeqs(n - 1) IN
       shorter \cup {Append(t, e) : t \in {x \in shorter : Len(x) = n - 1},
                                   e \in ComponentVariants(n)}

NestingRequests ==
  {Request("structurizr", "dsl", "landscape"), Request("likec4", "dsl", "container")}

InitNesting ==
  /\ RendererIdle
  /\ plantuml = PlantUMLIdle
  /\ viewer = ViewerIdle
  /\ dashboard = DashboardIdle
  /\ util = NoCall

\* the payload of the application layer arrives
NoPayload == model = EmptyModel

LoadApplicationLayer(applications, components) ==
  /\ out.kind = "none"
  /\ NoPayload
  /\ applications # <<>> \/ components # <<>>
  /\ model' = [model EXCEPT !.applications = applications, !.components = components]
  /\ UNCHANGED <<registry, req, out, prev, clock, probe, util, plantuml, viewer, dashboard>>

NextNesting ==
  \/ \E applications \in ApplicationSeqs(MaxApps) :
       \E components \in ComponentSeqs(MaxComps) :
         LoadApplicationLayer(applications, components)
  \/ \E r \in NestingRequests : RegistryRender(r, 0)

SpecNesting == InitNesting /\ [][NextNesting]_vars

----------------------------------------------------------------------------
(* sanitizeId on its own *)

\* characters an identifier may hold: letters, a digit, and separators
IdAlphabet == {"a", "Z", "9", "-", "_", "@"}

RECURSIVE StringsUpTo(_)
\* the identifiers of at most n characters
StringsUpTo(n) ==
  IF n = 0 THEN {<<>>}
  ELSE LET shorter == StringsUpTo(n - 1) IN
       shorter \cup {Append(t, c) : t \in shorter, c \in IdAlphabet}

SanitizeImpls == {"renderer", "mapping"}

sanitizeWith(impl, id) ==
  IF impl = "renderer" THEN sanitizeId(id) ELSE mappingSanitizeId(id)

InitSanitize ==
  /\ RendererIdle
  /\ plantuml = PlantUMLIdle
  /\ viewer = ViewerIdle
  /\ dashboard = DashboardIdle
  /\ util \in {[op |-> "sanitizeId", impl |-> impl, id |-> id, results |-> <<>>] :
                impl \in SanitizeImpls, id \in StringsUpTo(MaxLen)}

\* sanitizeId(id), and then sanitizeId of the result
SanitizeId ==
  /\ util.op = "sanitizeId"
  /\ Len(util.results) < 2
  /\ util' = [util EXCEPT !.results =
                 Append(@, sanitizeWith(util.impl,
                                        IF @ = <<>> THEN util.id ELSE @[Len(@)]))]
  /\ UNCHANGED <<rendererVars, plantuml, viewer, dashboard>>

NextSanitize == SanitizeId

SpecSanitize == InitSanitize /\ [][NextSanitize]_vars

----------------------------------------------------------------------------
(* Sequence view *)

MaxSteps == 3

\* the actors, or the applications, of a payload: none, one complete, one without a name
ParticipantLists(coll) ==
  {<<>>, <<Element(GoodUid(coll), <<"N">>, Undef)>>, <<Element(GoodUid(coll), Undef, Undef)>>}

RECURSIVE InteractionSeqs(_)
\* the relationship lists of at most n members
InteractionSeqs(n) ==
  IF n = 0 THEN {<<>>}
  ELSE LET shorter == InteractionSeqs(n - 1) IN
       shorter \cup {Append(t, r) : t \in {x \in shorter : Len(x) = n - 1},
                                   r \in RelationshipPool}

SequenceRequest == Request("plantuml", "sequence", "landscape")

InitSequence ==
  /\ RendererIdle
  /\ plantuml = PlantUMLIdle
  /\ viewer = ViewerIdle
  /\ dashboard = DashboardIdle
  /\ util = NoCall

\* a payload of actors, applications and relationships arrives
LoadInteractions ==
  /\ out.kind = "none"
  /\ NoPayload
  /\ \E actors \in ParticipantLists("actors"),
        applications \in ParticipantLists("applications"),
        relationships \in InteractionSeqs(MaxSteps) :
       /\ model' = [model EXCEPT !.actors = actors, !.applications = applications,
                                 !.relationships = relationships]
       /\ model' # model
  /\ UNCHANGED <<registry, req, out, prev, clock, probe, util, plantuml, viewer, dashboard>>

NextSequence ==
  \/ LoadInteractions
  \/ RegistryRender(SequenceRequest, 0)

SpecSequence == InitSequence /\ [][NextSequence]_vars

----------------------------------------------------------------------------
(* PlantUML client *)

MaxCalls == 2

\* requests a call may issue in the model; the retry rule stays below it
MaxRequests == 5

\* the first twelve characters of every diagram with a title
CodeHeader == <<"@","s","t","a","r","t","u","m","l","\n","t","i">>

PlantUMLCodes ==
  {<<" ">>, CodeHeader \o <<"A">>, CodeHeader \o <<"B">>, CodeHeader \o <<"U+20AC">>}

\* the viewer asks with a timeout of 15000 and useCache false; other callers with defaults
PlantUMLRequests ==
  {[code |-> code, options |-> PlantUMLOptions("svg", 0, "undefined")] : code \in PlantUMLCodes}
  \cup {[code |-> CodeHeader \o <<"A">>, options |-> PlantUMLOptions("png", 15000, "false")],
        [code |-> CodeHeader \o <<"A">>, options |-> PlantUMLOptions("png", 0, "undefined")]}

InitPlantUML ==
  /\ RendererIdle
  /\ plantuml = PlantUMLIdle
  /\ viewer = ViewerIdle
  /\ dashboard = DashboardIdle
  /\ util = NoCall

\* renderDiagram(code, options), subscribed to by the caller
PlantUMLRenderDiagram(r) ==
  /\ Len(plantuml.calls) < MaxCalls
  /\ plantuml' = [plantuml EXCEPT
                    !.calls = Append(@, renderDiagramSync(plantuml.cache, r.code, r.options))]
  /\ UNCHANGED <<rendererVars, util, viewer, dashboard>>

\* import('plantuml-encoder') resolves: the first request goes out
ServiceEncoderLoaded(c) ==
  /\ c \in 1..Len(plantuml.calls)
  /\ plantuml.calls[c].pc = "import"
  /\ plantuml' = [plantuml EXCEPT
                    !.calls[c].pc = "http",
                    !.calls[c].requests = 1,
                    !.calls[c].limit = timeoutOf(plantuml.calls[c].options)]

EncoderLoaded(c) == ServiceEncoderLoaded(c) /\ UNCHANGED <<rendererVars, util, viewer, dashboard>>

\* import('plantuml-encoder') rejects: the catchError of renderDiagram answers
ServiceEncoderFailed(c) ==
  /\ c \in 1..Len(plantuml.calls)
  /\ plantuml.calls[c].pc = "import"
  /\ LET call == plantuml.calls[c] IN
     plantuml' = [plantuml EXCEPT
                    !.calls[c].pc = "done",
                    !.calls[c].notified =
                       Notified("next",
                                createErrorDiagram(call.code, call.options, "import failed"),
                                "")]

EncoderFailed(c) == ServiceEncoderFailed(c) /\ UNCHANGED <<rendererVars, util, viewer, dashboard>>

\* the server answers the request of call c with an image
ServiceRespond(c) ==
  /\ c \in 1..Len(plantuml.calls)
  /\ plantuml.calls[c].pc = "http"
  /\ LET call == plantuml.calls[c]
         diagram == createSuccessDiagram(call.code, call.options, c)
         key == getCacheKey(call.code, call.options)
     IN plantuml' = [plantuml EXCEPT
                       !.calls[c].pc = "done",
                       !.calls[c].notified = Notified("next", diagram, ""),
                       !.cache = IF mayStore(call.options, diagram)
                                 THEN [k \in DOMAIN plantuml.cache \cup {key} |->
                                         IF k = key THEN diagram ELSE plantuml.cache[k]]
                                 ELSE @,
                       !.available = TRUE]

Respond(c) == ServiceRespond(c) /\ UNCHANGED <<rendererVars, util, viewer, dashboard>>

\* the request of call c fails or runs into its timeout: retry, or give up with an
\* error diagram
ServiceFail(c, error) ==
  /\ c \in 1..Len(plantuml.calls)
  /\ plantuml.calls[c].pc = "http"
  /\ LET call == plantuml.calls[c] IN
     IF mayRetry(call.requests)
     THEN /\ call.requests < MaxRequests
          /\ plantuml' = [plantuml EXCEPT !.calls[c].requests = @ + 1]
     ELSE plantuml' = [plantuml EXCEPT
                         !.calls[c].pc = "done",
                         !.calls[c].notified =
                            Notified("next",
                                     createErrorDiagram(call.code, call.options,
                                                        handleRenderError(error)),
                                     ""),
                         !.available = FALSE]

Fail(c, error) == ServiceFail(c, error) /\ UNCHANGED <<rendererVars, util, viewer, dashboard>>

\* clearCache()
ClearCache ==
  /\ plantuml' = [plantuml EXCEPT !.cache = <<>>]
  /\ UNCHANGED <<rendererVars, util, viewer, dashboard>>

\* the steps that take call c further
Progress(c) ==
  \/ EncoderLoaded(c)
  \/ EncoderFailed(c)
  \/ Respond(c)
  \/ \E error \in HttpFailures : Fail(c, error)

NextPlantUML ==
  \/ \E r \in PlantUMLRequests : PlantUMLRenderDiagram(r)
  \/ \E c \in 1..MaxCalls : EncoderLoaded(c)
  \/ \E c \in 1..MaxCalls : EncoderFailed(c)
  \/ \E c \in 1..MaxCalls : Respond(c)
  \/ \E c \in 1..MaxCalls, error \in HttpFailures : Fail(c, error)
  \/ ClearCache

SpecPlantUML == InitPlantUML /\ [][NextPlantUML]_vars

\* the module loader settles and every request ends, by an answer, a failure or its timeout
SpecPlantUMLFair ==
  SpecPlantUML /\ \A c \in 1..MaxCalls : WF_vars(Progress(c))

----------------------------------------------------------------------------
(* Validation of a model *)

MaxRels == 2

\* relationships with and without their ends; an object without uid is still an end
EndedRelationships ==
  {Relationship(ObjEnd(GoodUid("actors")), StrEnd(GoodUid("applications")), <<"Uses">>, Undef),
   Relationship(StrEnd(Undef), ObjEnd(GoodUid("applications")), <<"Uses">>, Undef),
   Relationship(ObjEnd(Undef), StrEnd(Empty), <<"Uses">>, Undef),
   Relationship(StrEnd(Empty), StrEnd(Undef), <<"Uses">>, Undef)}

RECURSIVE RelationshipSeqs(_)
\* the relationship lists of at most n members
RelationshipSeqs(n) ==
  IF n = 0 THEN {<<>>}
  ELSE LET shorter == RelationshipSeqs(n - 1) IN
       shorter \cup {Append(t, r) : t \in {x \in shorter : Len(x) = n - 1},
                                   r \in EndedRelationships}

\* an optional string field of a payload: set, empty, or absent
HeaderValues(good) == {good, Empty, Undef}

\* the architectures the backend may answer with
ArchitecturePayloads ==
  {[EmptyModel EXCEPT !.uid = uid, !.name = name, !.description = description,
                      !.version = version, !.metadata = metadata,
                      !.actors = actors, !.relationships = relationships] :
     uid \in HeaderValues(DefaultHeader.uid), name \in HeaderValues(DefaultHeader.name),
     description \in HeaderValues(<<"D">>), version \in {Undef, <<"1.0">>},
     metadata \in {Undef, <<"author">>},
     actors \in {<<>>, <<Element(GoodUid("actors"), <<"N">>, Undef)>>},
     relationships \in RelationshipSeqs(MaxRels)}

InitValidate ==
  /\ RendererIdle
  /\ plantuml = PlantUMLIdle
  /\ viewer = ViewerIdle
  /\ dashboard = DashboardIdle
  /\ util = NoCall

\* an architecture arrives at some time
LoadModel ==
  /\ util = NoCall
  /\ NoPayload
  /\ clock = 0
  /\ \E architecture \in ArchitecturePayloads, now \in 0..MaxClock :
       /\ model' = architecture
       /\ clock' = now
       /\ <<architecture, now>> # <<model, clock>>
  /\ UNCHANGED <<registry, req, out, prev, probe, util, plantuml, viewer, dashboard>>

\* ArchitectureModelAnalyzer.validate(model)
AnalyzerValidate ==
  /\ util = NoCall
  /\ util' = [op |-> "validate", result |-> analyzerValidate(model)]
  /\ UNCHANGED <<rendererVars, plantuml, viewer, dashboard>>

\* diagramService.validateArchitecture(model)
ValidateArchitecture ==
  /\ util = NoCall
  /\ util' = [op |-> "validateArchitecture", result |-> validateArchitecture(model, clock)]
  /\ UNCHANGED <<rendererVars, plantuml, viewer, dashboard>>

\* diagramService.convertToArchitectureModel(model)
ConvertToArchitectureModel ==
  /\ util = NoCall
  /\ util' = [op |-> "convertToArchitectureModel",
              result |-> convertToArchitectureModel(model, clock)]
  /\ UNCHANGED <<rendererVars, plantuml, viewer, dashboard>>

NextValidate ==
  \/ LoadModel
  \/ AnalyzerValidate
  \/ ValidateArchitecture
  \/ ConvertToArchitectureModel

SpecValidate == InitValidate /\ [][NextValidate]_vars

----------------------------------------------------------------------------
(* Analysis of the graph *)

MaxNodes == 3

InitAnalysis ==
  /\ RendererIdle
  /\ plantuml = PlantUMLIdle
  /\ viewer = ViewerIdle
  /\ dashboard = DashboardIdle
  /\ util = NoCall

\* a payload of applications and relationships arrives
LoadGraph ==
  /\ util = NoCall
  /\ NoPayload
  /\ \E applications \in ApplicationSeqs(MaxNodes),
        relationships \in RelationshipSeqs(MaxRels) :
       /\ model' = [model EXCEPT !.applications = applications,
                                 !.relationships = relationships]
       /\ model' # model
  /\ UNCHANGED <<registry, req, out, prev, clock, probe, util, plantuml, viewer, dashboard>>

\* graphRenderer.analyzeModel(model)
AnalyzeModel ==
  /\ util = NoCall
  /\ util' = [op |-> "analyzeModel", result |-> graphAnalyzeModel(model)]
  /\ UNCHANGED <<rendererVars, plantuml, viewer, dashboard>>

NextAnalysis ==
  \/ LoadGraph
  \/ AnalyzeModel

SpecAnalysis == InitAnalysis /\ [][NextAnalysis]_vars

----------------------------------------------------------------------------
(* Identifiers that collide *)

MaxDup == 2

\* uids of which the first two are the same after sanitizeId
CollidingUids == {<<"x", "-", "1">>, <<"x", ".", "1">>, <<"y">>}

RECURSIVE NamedElementSeqs(_)
\* the lists of at most n complete elements with these uids
NamedElementSeqs(n) ==
  IF n = 0 THEN {<<>>}
  ELSE LET shorter == NamedElementSeqs(n - 1) IN
       shorter \cup {Append(t, Element(uid, <<"N">>, Undef)) :
                       t \in {x \in shorter : Len(x) = n - 1}, uid \in CollidingUids}

LikeC4Request == Request("likec4", "dsl", "landscape")

InitDuplicates ==
  /\ RendererIdle
  /\ plantuml = PlantUMLIdle
  /\ viewer = ViewerIdle
  /\ dashboard = DashboardIdle
  /\ util = NoCall

\* a payload of an actor, applications and components arrives
LoadElements ==
  /\ out.kind = "none"
  /\ NoPayload
  /\ \E actors \in NamedElementSeqs(1), applications \in NamedElementSeqs(MaxDup),
        components \in NamedElementSeqs(MaxDup) :
       /\ model' = [model EXCEPT !.actors = actors, !.applications = applications,
                                 !.components = components]
       /\ model' # model
  /\ UNCHANGED <<registry, req, out, prev, clock, probe, util, plantuml, viewer, dashboard>>

NextDuplicates ==
  \/ LoadElements
  \/ RegistryRender(LikeC4Request, 0)

SpecDuplicates == InitDuplicates /\ [][NextDuplicates]_vars

----------------------------------------------------------------------------
(* The registry on its own *)

MaxOps == 3

\* the order of the registerRenderer calls of DiagramService.initializeRenderers
InitializationOrder == <<"structurizr", "likec4", "graph", "plantuml">>

\* renderers a caller may register: three under the name custom, one under the name graph
RegistrationPool == PluginPool \cup {[Builtin("graph") EXCEPT !.renderMode = "ok"]}

RegistryNames == BuiltinNames \cup {"custom", "unknown"}

Registered(renderer) == [call |-> "registerRenderer", name |-> renderer.name, renderer |-> renderer]

Unregistered(name) == [call |-> "unregisterRenderer", name |-> name, renderer |-> NullRenderer]

\* the registry right after its own construction; the calls made on it are noted in util
InitRegistry ==
  /\ model = EmptyModel
  /\ registry = <<>>
  /\ req = NoRequest
  /\ out = NoOutput
  /\ prev = NoOutput
  /\ clock = 0
  /\ probe = NoProbe
  /\ plantuml = PlantUMLIdle
  /\ viewer = ViewerIdle
  /\ dashboard = DashboardIdle
  /\ util = [op |-> "registry", initialized |-> FALSE, log |-> <<>>]

\* the constructor of DiagramService: initializeRenderers()
InitializeRenderers ==
  /\ ~util.initialized
  /\ registry' = renderersSet(renderersSet(renderersSet(renderersSet(registry,
                    Builtin(InitializationOrder[1])), Builtin(InitializationOrder[2])),
                    Builtin(InitializationOrder[3])), Builtin(InitializationOrder[4]))
  /\ util' = [util EXCEPT !.initialized = TRUE]
  /\ UNCHANGED <<model, req, out, prev, clock, probe, plantuml, viewer, dashboard>>

\* registry.registerRenderer(renderer)
RegisterRenderer(renderer) ==
  /\ util.initialized
  /\ Len(util.log) < MaxOps
  /\ registry' = renderersSet(registry, renderer)
  /\ util' = [util EXCEPT !.log = Append(@, Registered(renderer))]
  /\ UNCHANGED <<model, req, out, prev, clock, probe, plantuml, viewer, dashboard>>

\* registry.unregisterRenderer(name)
UnregisterRenderer(name) ==
  /\ util.initialized
  /\ Len(util.log) < MaxOps
  /\ registry' = renderersDelete(registry, name)
  /\ util' = [util EXCEPT !.log = Append(@, Unregistered(name))]
  /\ UNCHANGED <<model, req, out, prev, clock, probe, plantuml, viewer, dashboard>>

NextRegistry ==
  \/ InitializeRenderers
  \/ \E renderer \in RegistrationPool : RegisterRenderer(renderer)
  \/ \E name \in RegistryNames : UnregisterRenderer(name)

SpecRegistry == InitRegistry /\ [][NextRegistry]_vars

----------------------------------------------------------------------------
(* The diagram viewer *)

MaxEdits == 2

\* output.content of the tab's renderer for a format
GeneratedCode(name, format) ==
  IF name = "plantuml" THEN CodeHeader \o <<format>> ELSE <<"workspace ", format>>

\* what the user may leave in the editor of a tab
EditedCodes(name) ==
  IF name = "plantuml"
  THEN {Empty, <<" ">>, CodeHeader \o <<"B">>, CodeHeader \o <<"U+20AC">>}
  ELSE {<<"workspace ", "edited">>}

\* the formats the user switches between: two of the PlantUML tab; the other tab is left
\* on its first format
TabFormats(name) == IF name = "plantuml" THEN {"c4", "sequence"} ELSE {"dsl"}

\* the failure of a request followed here: the timeout of the viewer's renderOptions
ViewerFailures == {"TimeoutError"}

InitViewer ==
  /\ RendererIdle
  /\ plantuml = PlantUMLIdle
  /\ viewer = ViewerIdle
  /\ dashboard = DashboardIdle
  /\ util = NoCall

\* the renders that are still to be asked of the service: one for a pending timer
Scheduled == IF viewer.codeEditTimeout.pending THEN 1 ELSE 0

\* renderAllTabs: every tab gets the output of its current format as editable code, and
\* the PlantUML tab asks for its diagram
RenderAllTabs ==
  /\ ~viewer.loaded
  /\ LET filled == [viewer EXCEPT
                      !.loaded = TRUE,
                      !.rendererTabs =
                         [n \in TabNames |->
                            [viewer.rendererTabs[n] EXCEPT
                               !.editableCode =
                                  GeneratedCode(n, viewer.rendererTabs[n].currentFormat)]]]
         r == renderPlantUMLForTab(filled, plantuml, "plantuml")
     IN viewer' = r.viewer /\ plantuml' = r.plantuml
  /\ UNCHANGED <<rendererVars, util, dashboard>>

\* selectRendererTab(tabId)
SelectRendererTab(tabId) ==
  /\ viewer.loaded
  /\ tabId # viewer.activeRendererTab
  /\ viewer' = [viewer EXCEPT !.activeRendererTab = tabId]
  /\ UNCHANGED <<rendererVars, util, plantuml, dashboard>>

\* onFormatChange: the tab shows the output of the chosen format; PlantUML renders again
OnFormatChange(format) ==
  /\ viewer.loaded
  /\ format \in TabFormats(viewer.activeRendererTab)
  /\ format # viewer.rendererTabs[viewer.activeRendererTab].currentFormat
  /\ Len(plantuml.calls) + Scheduled < MaxCalls
  /\ LET name == viewer.activeRendererTab
         changed == [viewer EXCEPT
                       !.rendererTabs[name].currentFormat = format,
                       !.rendererTabs[name].editableCode = GeneratedCode(name, format)]
         r == IF name = "plantuml" THEN renderPlantUMLForTab(changed, plantuml, name)
              ELSE [viewer |-> changed, plantuml |-> plantuml, threw |-> FALSE]
     IN viewer' = r.viewer /\ plantuml' = r.plantuml
  /\ UNCHANGED <<rendererVars, util, dashboard>>

\* the user changes the text of the editor (ngModel writes editableCode of the active
\* tab), then onCodeEdit: the pending timer is cleared and a new one started
OnCodeEdit(code) ==
  /\ viewer.loaded
  /\ ~viewer.renderError
  /\ viewer.edits < MaxEdits
  /\ Len(plantuml.calls) < MaxCalls
  /\ code \in EditedCodes(viewer.activeRendererTab)
  /\ code # viewer.rendererTabs[viewer.activeRendererTab].editableCode
  /\ viewer' = [viewer EXCEPT
                  !.rendererTabs[viewer.activeRendererTab].editableCode = code,
                  !.codeEditTimeout = [set |-> TRUE, pending |-> TRUE,
                                       tab |-> viewer.activeRendererTab,
                                       remaining |-> debounce],
                  !.edits = @ + 1]
  /\ UNCHANGED <<rendererVars, util, plantuml, dashboard>>

\* the debounce time passes while the timer is pending
Tick ==
  /\ viewer.codeEditTimeout.pending
  /\ viewer.codeEditTimeout.remaining > 0
  /\ viewer' = [viewer EXCEPT !.codeEditTimeout.remaining = @ - debounce]
  /\ UNCHANGED <<rendererVars, util, plantuml, dashboard>>

\* the callback of the timer: a render if the captured tab is the PlantUML tab, then
\* codeEditTimeout = null (not reached when the render threw)
CodeEditTimeout ==
  /\ viewer.codeEditTimeout.pending
  /\ viewer.codeEditTimeout.remaining = 0
  /\ LET name == viewer.codeEditTimeout.tab
         fired == [viewer EXCEPT !.codeEditTimeout.pending = FALSE]
         r == IF name = "plantuml" THEN renderPlantUMLForTab(fired, plantuml, name)
              ELSE [viewer |-> fired, plantuml |-> plantuml, threw |-> FALSE]
     IN /\ viewer' = IF r.threw THEN r.viewer
                     ELSE [r.viewer EXCEPT !.codeEditTimeout = NoTimeout]
        /\ plantuml' = r.plantuml
  /\ UNCHANGED <<rendererVars, util, dashboard>>

\* setPlantUMLDisplayMode(mode); neither 'png' nor 'svg' is a format of the tab, so the
\* format stays
SetPlantUMLDisplayMode(mode) ==
  /\ viewer.loaded
  /\ viewer.activeRendererTab = "plantuml"
  /\ Len(plantuml.calls) + Scheduled < MaxCalls
  /\ LET cleared == [viewer EXCEPT
                       !.rendererTabs["plantuml"].plantUMLDisplayMode = mode,
                       !.rendererTabs["plantuml"].plantUMLDiagram = NotShown]
         r == renderPlantUMLForTabWithMode(cleared, plantuml, "plantuml", mode)
     IN viewer' = r.viewer /\ plantuml' = r.plantuml
  /\ UNCHANGED <<rendererVars, util, dashboard>>

\* the subscription of call c sees the step the service took
Subscription(c) ==
  /\ viewer' = deliver(viewer, c, plantuml'.calls[c])
  /\ UNCHANGED <<rendererVars, util, dashboard>>

ViewerEncoderLoaded(c) == ServiceEncoderLoaded(c) /\ Subscription(c)

ViewerEncoderFailed(c) == ServiceEncoderFailed(c) /\ Subscription(c)

ViewerRespond(c) == ServiceRespond(c) /\ Subscription(c)

ViewerFail(c, error) == ServiceFail(c, error) /\ Subscription(c)

NextViewer ==
  \/ RenderAllTabs
  \/ \E tabId \in TabNames : SelectRendererTab(tabId)
  \/ \E format \in {"c4", "sequence"} : OnFormatChange(format)
  \/ \E code \in UNION {EditedCodes(name) : name \in TabNames} : OnCodeEdit(code)
  \/ Tick
  \/ CodeEditTimeout
  \/ \E mode \in {"iframe", "image"} : SetPlantUMLDisplayMode(mode)
  \/ \E c \in 1..MaxCalls : ViewerEncoderLoaded(c)
  \/ \E c \in 1..MaxCalls : ViewerEncoderFailed(c)
  \/ \E c \in 1..MaxCalls : ViewerRespond(c)
  \/ \E c \in 1..MaxCalls, error \in ViewerFailures : ViewerFail(c, error)

SpecViewer == InitViewer /\ [][NextViewer]_vars

\* time passes and a timer that is due runs its callback
SpecViewerFair == SpecViewer /\ WF_vars(Tick) /\ WF_vars(CodeEditTimeout)

----------------------------------------------------------------------------
(* The dashboard *)

MaxSelections == 3

\* the uids of the architectures in the list
ListedUids == {"A", "B"}

\* how the promise of getCompleteArchitecture(uid).toPromise() settles: with the complete
\* architecture, with undefined, or rejected
FetchOutcomes == {"value", "undefined", "rejected"}

InitDashboard ==
  /\ RendererIdle
  /\ plantuml = PlantUMLIdle
  /\ viewer = ViewerIdle
  /\ dashboard = DashboardIdle
  /\ util = NoCall

\* a click on an entry of the list: selectArchitecture(arch)
SelectArchitecture(uid) ==
  /\ Len(dashboard.fetches) < MaxSelections
  /\ dashboard' = selectArchitecture(dashboard, Architecture(uid, FALSE))
  /\ UNCHANGED <<rendererVars, util, plantuml, viewer>>

\* the fetch of call f settles and selectArchitecture runs to its end
FetchSettles(f, outcome) ==
  /\ f \in 1..Len(dashboard.fetches)
  /\ dashboard.fetches[f].pc = "await"
  /\ dashboard' = resumeSelectArchitecture(dashboard, f, outcome)
  /\ UNCHANGED <<rendererVars, util, plantuml, viewer>>

NextDashboard ==
  \/ \E uid \in ListedUids : SelectArchitecture(uid)
  \/ \E f \in 1..MaxSelections, outcome \in FetchOutcomes : FetchSettles(f, outcome)

SpecDashboard == InitDashboard /\ [][NextDashboard]_vars

----------------------------------------------------------------------------
(* Vocabulary of the properties *)

Rendered == out.kind # "none"

\* the call reached the render method of a built-in renderer
BuiltinRendered == Rendered /\ probe.rendered /\ req.rendererName \in BuiltinNames

\* a built-in renderer returned a diagram
BuiltinOutput == out.kind = "next" /\ req.rendererName \in BuiltinNames

AllElements(m) ==
  m.actors \o m.applications \o m.components \o m.businessServices
    \o m.applicationServices \o m.nodes \o m.systemSoftware \o m.technologyServices

IncompleteElements(m) == SelectSeq(AllElements(m), LAMBDA e : ~HasUidAndName(e))

People(m) == SelectSeq(m.actors, HasUidAndName)

Systems(m) == SelectSeq(m.applications, HasUidAndName)

\* the relationships with both ends of which one names no element of the model
DanglingRelationships(m) ==
  LET uids == {e.uid : e \in Range(AllElements(m))} IN
  {rel \in Range(m.relationships) :
     /\ HasEnds(rel)
     /\ \/ extractElementId(rel.source) \notin uids
        \/ extractElementId(rel.target) \notin uids}

\* the content holds an arrow between the sanitised ends of rel
Emitted(rel, content) ==
  \E st \in Range(Arrows(content)) :
    /\ st.id = sanitizeId(extractElementId(rel.source))
    /\ st.to = sanitizeId(extractElementId(rel.target))

\* a failed render fails on the same model without its relationships too
FailsWithoutRelationships ==
  (BuiltinRendered /\ out.kind = "error") =>
     renderThrows(registry[req.rendererName], [model EXCEPT !.relationships = <<>>])

StructurizrInference ==
  out.kind = "next" /\ req.rendererName = "structurizr" /\ model.relationships = <<>>

----------------------------------------------------------------------------
(* Properties *)

\* C1: every built-in renderer, in every format, completes on a model that holds
\* elements without uid or name, and its content declares no node for them.
C1_IncompleteElementsSkipped ==
  (BuiltinRendered /\ IncompleteElements(model) # <<>>) =>
     /\ out.kind = "next"
     /\ \A st \in Range(Decls(out.content)) : Truthy(st.id) /\ Truthy(st.label)

\* C2: when the renderer's validate returns isValid = false, the registry does not
\* call render and fails with a message holding every validation error message,
\* joined by ", ".
C2_InvalidModelNotRendered ==
  (probe.validated /\ ~probe.threw /\ ~probe.isValid) =>
     /\ ~probe.rendered
     /\ out.kind = "error"
     /\ out.content = NoContent
     /\ Head(out.message) = "Architecture validation failed: "
     /\ Tail(out.message)
          = Join([i \in 1..Len(probe.errors) |-> probe.errors[i].message], ", ")

C2_Witness ==
  /\ probe.validated /\ ~probe.threw /\ ~probe.isValid
  /\ Len(probe.errors) = 2
  /\ out.kind = "error"

\* C3: a format the registered renderer does not list as supported gives a
\* 'does not support format' failure and never an output.
C3_UnsupportedFormatRejected ==
  (/\ Rendered
   /\ req.rendererName \in DOMAIN registry
   /\ probe.isValid
   /\ ~supportsFormat(registry[req.rendererName], req.format)) =>
     /\ out.kind = "error"
     /\ "does not support format" \in Range(out.message)

\* C4 as stated: the registry's render never throws: an unregistered name gives a
\* 'not found' failure, and an exception of validate or render a labelled failure.
C4_NeverThrows ==
  Rendered =>
    /\ out.kind # "throw"
    /\ req.rendererName \notin DOMAIN registry =>
         out.kind = "error" /\ "not found" \in Range(out.message)
    /\ (probe.threw \/ probe.renderThrew) =>
         /\ out.kind = "error"
         /\ Head(out.message) \in {"Architecture validation failed: ", "Rendering failed: "}

\* C4 amended: an unregistered name gives a 'not found' failure and an exception of
\* render a failure labelled 'Rendering failed: '; an exception of validate is not
\* caught by the registry: it leaves render synchronously, and DiagramService hands
\* it on as a failure without a label.  Nothing else is thrown.
C4_OnlyValidateThrows ==
  Rendered =>
    /\ req.rendererName \notin DOMAIN registry =>
         out.kind = "error" /\ "not found" \in Range(out.message)
    /\ probe.renderThrew =>
         out.kind = "error" /\ Head(out.message) = "Rendering failed: "
    /\ probe.threw =>
         out.kind \in {"throw", "error"} /\ out.message = <<"validate threw">>
    /\ out.kind = "throw" => probe.threw

C4_Witness == out.kind = "throw" /\ probe.threw /\ ~probe.rendered

\* C5: two renders of the same model with the same renderer and options give the
\* same content and format; the time of the call shows only in timestamp and metadata.
C5_SameContentTwice ==
  (prev.kind = "next" /\ out.kind = "next") =>
     /\ out.content = prev.content
     /\ out.format = prev.format
     /\ out.rendererName = prev.rendererName

C5_Witness ==
  /\ prev.kind = "next" /\ out.kind = "next"
  /\ out.timestamp # prev.timestamp
  /\ out.metadata.renderingTime # prev.metadata.renderingTime
  /\ Len(out.content.lines) > 2

C7_NeverEdgeless ==
  StructurizrInference => Len(Arrows(out.content)) >= 1

\* C7 amended: a Structurizr diagram of a model without relationships shows at least
\* one relationship when the model has a person and a system, and none otherwise.
C7_EdgelessWithoutPersonOrSystem ==
  StructurizrInference =>
     IF Len(People(model)) >= 1 /\ Len(Systems(model)) >= 1
     THEN Len(Arrows(out.content)) >= 1
     ELSE Arrows(out.content) = <<>>

C7_Witness ==
  /\ StructurizrInference
  /\ req.format = "plantuml"
  /\ Len(People(model)) >= 1 /\ Len(Systems(model)) >= 1
  /\ \E st \in Range(Arrows(out.content)) : st.tag = <<"provides">>

\* C8 as stated: in every built-in renderer and format a relationship whose source
\* or target names no element is emitted all the same, and causes no failure.
C8_DanglingAlwaysEmitted ==
  /\ BuiltinOutput =>
       \A rel \in DanglingRelationships(model) : Emitted(rel, out.content)
  /\ FailsWithoutRelationships

\* C8 amended: the same in every format but PlantUML's sequence diagram, which
\* shows a relationship only between two declared participants.
C8_DanglingEmittedOutsideSequence ==
  /\ (BuiltinOutput /\ req.format # "sequence") =>
       \A rel \in DanglingRelationships(model) : Emitted(rel, out.content)
  /\ (BuiltinOutput /\ req.format = "sequence") =>
       LET participants == {st.id : st \in Range(Decls(out.content))} IN
       /\ \A st \in Range(Arrows(out.content)) :
            st.id \in participants /\ st.to \in participants
       /\ \A rel \in Range(model.relationships) :
            (/\ HasEnds(rel)
             /\ sanitizeId(extractElementId(rel.source)) \in participants
             /\ sanitizeId(extractElementId(rel.target)) \in participants)
              => Emitted(rel, out.content)
  /\ FailsWithoutRelationships

C8_Witness ==
  /\ BuiltinOutput
  /\ req.format # "sequence"
  /\ \E rel \in DanglingRelationships(model) :
       /\ ~rel.target.isObj
       /\ Emitted(rel, out.content)

C10_GraphKeepsUids ==
  (out.kind = "next" /\ req.rendererName = "graph" /\ req.format = "json") =>
     LET nodes == SelectSeq(out.content.lines, LAMBDA st : st.k = "node")
         edges == SelectSeq(out.content.lines, LAMBDA st : st.k = "edge")
         elements == SelectSeq(AllElements(model), HasUidAndName)
         rels == SelectSeq(model.relationships, HasEnds)
     IN /\ Len(nodes) = Len(elements)
        /\ \A e \in Range(elements) : \E st \in Range(nodes) : st.id = e.uid
        /\ Len(edges) = Len(rels)
        /\ \A i \in 1..Len(edges) :
             /\ edges[i].id = extractElementId(rels[i].source)
             /\ edges[i].to = extractElementId(rels[i].target)
             /\ edges[i].label = OrElse(rels[i].description, Empty)

\* C11: for a model whose elements all have uid and name (and whose relationships
\* all have both ends), the Graph renderer's metadata reports as many nodes as
\* elements and as many edges as relationships: no layer collection is left out.
C11_GraphCountsMatch ==
  (/\ out.kind = "next" /\ req.rendererName = "graph"
   /\ IncompleteElements(model) = <<>>
   /\ \A rel \in Range(model.relationships) : HasEnds(rel)) =>
     /\ out.metadata.nodeCount = out.metadata.elementCount
     /\ out.metadata.edgeCount = out.metadata.relationshipCount
     /\ out.metadata.nodeCount
          = Len(SelectSeq(out.content.lines, LAMBDA st : st.k = "node"))

\* C12: sanitising an identifier twice gives what sanitising it once gives, and
\* the result holds letters, digits and underscores only.
C12_SanitizeIdempotent ==
  util.op = "sanitizeId" =>
     /\ \A k \in 1..Len(util.results) :
          /\ Len(util.results[k]) = Len(util.id)
          /\ \A i \in 1..Len(util.results[k]) :
               util.results[k][i] \in AlnumChars \cup {"_"}
     /\ Len(util.results) = 2 => util.results[2] = util.results[1]

C12_Witness ==
  /\ util.op = "sanitizeId"
  /\ Len(util.results) = 2
  /\ util.results[1] # util.id
  /\ Len(SelectSeq(util.id, LAMBDA c : c \notin AlnumChars \cup {"_"})) >= 2

\* the declarations of kind k that the content nests under the identifier parent
NestedUnder(content, parent, kinds) ==
  LET under == SelectSeq(content.lines, LAMBDA st : st.k \in kinds /\ st.tag = parent)
  IN [i \in 1..Len(under) |-> under[i].id]

\* the sanitised uids of the members [i*k, (i+1)*k) of s that satisfy keep
SliceIds(s, i, k, keep(_)) ==
  LET part == SelectSeq(SubSeq(s, i * k + 1, Min((i + 1) * k, Len(s))), keep)
  IN [j \in 1..Len(part) |-> sanitizeId(part[j].uid)]

C14_ComponentsSlicedAcrossSystems ==
  (/\ out.kind = "next" /\ req.rendererName = "likec4"
   /\ Systems(model) # <<>>) =>
     LET systems == Systems(model)
         S == Len(systems)
         C == Len(model.components)
         k == (C + S - 1) \div S
         nested == SelectSeq(out.content.lines,
                     LAMBDA st : st.tag \in {sanitizeId(a.uid) : a \in Range(systems)})
     IN /\ \A i \in 0..(S - 1) :
             NestedUnder(out.content, sanitizeId(systems[i + 1].uid),
                         {"component", "service", "infrastructure"})
               = SliceIds(model.components, i, k, HasUidAndName)
        /\ \A c \in Range(SelectSeq(model.components, HasUidAndName)) :
             Cardinality({n \in 1..Len(nested) : nested[n].id = sanitizeId(c.uid)}) = 1

\* the codes of a list of findings
Codes(findings) == {findings[i].code : i \in 1..Len(findings)}

\* C15: ArchitectureModelAnalyzer.validate answers isValid = true exactly when the model's
\* uid and name are both non-empty and every relationship has a source and a target; a
\* missing uid is reported as MISSING_UID and a missing name as MISSING_NAME, each on its
\* own; warnings (EMPTY_MODEL) have no influence on isValid.
C15_ValidIffHeaderAndEnds ==
  util.op = "validate" =>
    LET r == util.result IN
    /\ r.isValid <=> /\ Truthy(model.uid)
                     /\ Truthy(model.name)
                     /\ \A i \in 1..Len(model.relationships) : HasEnds(model.relationships[i])
    /\ "MISSING_UID" \in Codes(r.errors) <=> Falsy(model.uid)
    /\ "MISSING_NAME" \in Codes(r.errors) <=> Falsy(model.name)
    /\ "EMPTY_MODEL" \in Codes(r.warnings) <=> calculateTotalElements(model) = 0
    /\ \A i \in 1..Len(r.warnings) : r.warnings[i].severity = "warning"

\* C15 witness: an empty model with a name but an empty uid is invalid with MISSING_UID only,
\* next to the EMPTY_MODEL warning
C15_Witness ==
  /\ util.op = "validate"
  /\ model.uid = Empty
  /\ Truthy(model.name)
  /\ Codes(util.result.errors) = {"MISSING_UID"}
  /\ Codes(util.result.warnings) = {"EMPTY_MODEL"}
  /\ ~util.result.isValid

\* the fields of a model other than uid, name and description
PassedFields ==
  {"version", "actors", "businessServices", "applications", "components",
   "applicationServices", "nodes", "systemSoftware", "technologyServices",
   "relationships", "metadata"}

Converted == util.op = "convertToArchitectureModel"

\* C16 (as stated): convertToArchitectureModel changes nothing but a missing uid and a
\* missing name; description, version, the layers, relationships and metadata of the
\* result are identical to the input's.
C16_OnlyUidAndNameChange ==
  Converted =>
    /\ \A f \in PassedFields \cup {"description"} : util.result[f] = model[f]
    /\ model.uid # Undef => util.result.uid = model.uid
    /\ model.name # Undef => util.result.name = model.name

\* C16 (amended): uid, name and description are defaulted when absent or empty (uid to
\* 'default-architecture-' + the time, name to 'Unnamed Architecture', description to '')
\* and kept otherwise; version, the layers, relationships and metadata are identical to
\* the input's.
C16_HeaderDefaultsOnly ==
  Converted =>
    /\ \A f \in PassedFields : util.result[f] = model[f]
    /\ DOMAIN util.result = DOMAIN model
    /\ util.result.uid = IF Truthy(model.uid) THEN model.uid
                         ELSE <<"default-architecture-", NumStr(clock)>>
    /\ util.result.name = IF Truthy(model.name) THEN model.name
                          ELSE <<"Unnamed Architecture">>
    /\ util.result.description = IF Truthy(model.description) THEN model.description
                                 ELSE Empty

\* C16 witness: an architecture without uid, name and description, with relationships,
\* a version and metadata, has been converted
C16_Witness ==
  /\ Converted
  /\ model.uid = Undef /\ model.name = Undef /\ model.description = Undef
  /\ model.relationships # <<>> /\ model.version # Undef /\ model.metadata # Undef
  /\ util.result.description = Empty
  /\ util.result.relationships = model.relationships

\* a sequence view came out
SequenceRendered == BuiltinOutput /\ req = SequenceRequest

\* the end of a relationship names a declared participant of the content
EndDeclared(e, content) ==
  /\ EndTruthy(e)
  /\ \E st \in Range(Decls(content)) :
       st.k = "participant" /\ st.id = sanitizeId(extractElementId(e))

\* the relationships both of whose ends are declared participants, in model order
Interactions(relationships, content) ==
  SelectSeq(relationships,
            LAMBDA rel : EndDeclared(rel.source, content) /\ EndDeclared(rel.target, content))

\* C17: in PlantUML's sequence format a relationship gets an interaction arrow exactly when
\* both of its ends are declared participants; the arrows stand in relationship order and
\* are numbered 1, 2, ..., k without gap or repeat.
C17_SequenceArrowsNumbered ==
  SequenceRendered =>
    LET arrows == Arrows(out.content)
        due == Interactions(model.relationships, out.content)
    IN /\ Len(arrows) = Len(due)
       /\ \A i \in 1..Len(arrows) :
            /\ arrows[i].id = sanitizeId(extractElementId(due[i].source))
            /\ arrows[i].to = sanitizeId(extractElementId(due[i].target))
            /\ arrows[i].k = IF due[i].relationshipType = <<"FLOW">> THEN "->>" ELSE "->"
            /\ arrows[i].label[1] = NumStr(i)

\* C17 witness: three relationships, the middle one with an end that is no participant;
\* the two others are drawn as steps 1 and 2
C17_Witness ==
  /\ SequenceRendered
  /\ Len(model.relationships) = 3
  /\ Len(Interactions(model.relationships, out.content)) = 2
  /\ ~EndDeclared(model.relationships[2].target, out.content)
  /\ EndTruthy(model.relationships[2].target)
  /\ Len(Arrows(out.content)) = 2
  /\ Arrows(out.content)[2].label[1] = "2"

\* the renderDiagram calls made so far
CallIds == 1..Len(plantuml.calls)

Finished(c) == c \in CallIds /\ plantuml.calls[c].pc = "done"

\* C18: the observable returned by PlantUMLService.renderDiagram never signals an error;
\* every failure reaches the subscriber as an emitted diagram with success false and an
\* error string.
C18_FailuresAreEmitted ==
  \A c \in CallIds :
    Finished(c) =>
      /\ plantuml.calls[c].notified.kind = "next"
      /\ ~plantuml.calls[c].notified.diagram.success
           => plantuml.calls[c].notified.diagram.error # ""

\* every stored diagram is a successful one, fetched by a call that did not switch the
\* cache off, and sits under the key of its own code and format
CacheHoldsSuccessesOnly ==
  \A key \in DOMAIN plantuml.cache :
    LET diagram == plantuml.cache[key] IN
    /\ diagram.success
    /\ diagram.blob \in CallIds
    /\ plantuml.calls[diagram.blob].options.useCache # "false"
    /\ plantuml.calls[diagram.blob].notified.diagram = diagram
    /\ key = getCacheKey(diagram.code, plantuml.calls[diagram.blob].options)

\* a step that removes a key from the cache empties the cache and does nothing else
KeysLeaveByClearCacheOnly ==
  (DOMAIN plantuml.cache \ DOMAIN plantuml'.cache # {})
    => /\ DOMAIN plantuml'.cache = {}
       /\ plantuml'.calls = plantuml.calls
       /\ plantuml'.available = plantuml.available

\* C19: the cache of the PlantUML client holds successfully rendered diagrams only; a
\* failed render and a render made with useCache false are never stored, and entries
\* leave the cache only through clearCache.
C19_CacheHoldsSuccessesUntilCleared ==
  []CacheHoldsSuccessesOnly /\ [][KeysLeaveByClearCacheOnly]_vars

\* C19 witness: one call has stored its diagram; another one, without the cache, got an
\* image that was not stored
C19_Witness ==
  \E c, d \in CallIds :
    /\ Finished(c) /\ Finished(d)
    /\ plantuml.calls[c].notified.diagram \in {plantuml.cache[k] : k \in DOMAIN plantuml.cache}
    /\ plantuml.calls[d].options.useCache = "false"
    /\ plantuml.calls[d].notified.diagram.success
    /\ plantuml.calls[d].notified.diagram
         \notin {plantuml.cache[k] : k \in DOMAIN plantuml.cache}

\* again and again every call made so far has ended with a notification
EveryCallFinishes ==
  []<>(\A c \in CallIds : Finished(c) /\ plantuml.calls[c].notified.kind # "none")

\* C20 (as stated): one renderDiagram call issues at most 1 + maxRetries = 3 HTTP
\* requests, each bounded by the fixed timeout, and then completes with a result.
C20_ThreeRequestsFixedTimeout ==
  /\ [](\A c \in CallIds :
          /\ plantuml.calls[c].requests <= 3
          /\ plantuml.calls[c].pc = "http" => plantuml.calls[c].limit = 10000)
  /\ EveryCallFinishes

\* C20 (amended): one renderDiagram call issues at most 3 HTTP requests, each bounded by
\* the timeout of the call (options.timeout when given, 10000 ms otherwise), and then
\* completes with a result.
C20_ThreeRequestsCallTimeout ==
  /\ [](\A c \in CallIds :
          /\ plantuml.calls[c].requests <= 3
          /\ plantuml.calls[c].pc = "http" =>
               plantuml.calls[c].limit = IF plantuml.calls[c].options.timeout # 0
                                         THEN plantuml.calls[c].options.timeout
                                         ELSE 10000)
  /\ EveryCallFinishes

\* C20 witness: a call made with its own timeout has given up after three requests
C20_Witness ==
  \E c \in CallIds :
    /\ Finished(c)
    /\ plantuml.calls[c].requests = 3
    /\ plantuml.calls[c].limit = 15000
    /\ ~plantuml.calls[c].notified.diagram.success

\* the nodes and edges the Graph renderer draws for the payload
DrawnNodes == Len(SelectSeq(model.applications, HasUidAndName))

DrawnEdges == Len(SelectSeq(model.relationships, HasEnds))

\* a fraction rounded to three decimals, in thousandths
Thousandths(f) == (2000 * f.num + f.den) \div (2 * f.den)

\* C22: GraphRenderer.analyzeModel reports density 0 for a graph of 0 or 1 nodes and
\* 2*|E| / (|N|*(|N|-1)) otherwise.
C22_DensityFormula ==
  util.op = "analyzeModel" =>
    LET d == util.result.density IN
    /\ d.den > 0
    /\ DrawnNodes <= 1 => d.num = 0
    /\ DrawnNodes > 1 => d.num * (DrawnNodes * (DrawnNodes - 1)) = 2 * DrawnEdges * d.den

\* C22 witness: three nodes and two edges have the density 0.667 (to three decimals)
C22_Witness ==
  /\ util.op = "analyzeModel"
  /\ DrawnNodes = 3 /\ DrawnEdges = 2
  /\ util.result.nodes = 3 /\ util.result.edges = 2
  /\ Thousandths(util.result.density) = 667

\* the identifiers of the elements a content declares, views left aside
DeclaredIds(content) ==
  LET d == Decls(content) IN [i \in 1..Len(d) |-> d[i].id]

HasDuplicate(ids) == \E i, j \in 1..Len(ids) : i < j /\ ids[i] = ids[j]

\* C23: the LikeC4 validator returns a duplicate-id warning whenever two elements of the
\* mapped model have the same sanitized id; the warnings go into the metadata and the
\* render does not fail.
C23_DuplicateIdsWarned ==
  (probe.rendered /\ req.rendererName = "likec4" /\ ~probe.renderThrew) =>
    /\ out.kind = "next"
    /\ HasDuplicate(DeclaredIds(out.content))
         => "Duplicate element IDs found" \in Range(out.metadata.warnings)

\* the complete elements of a collection
Complete(elements) == SelectSeq(elements, HasUidAndName)

\* the elements the Structurizr renderer maps to a person, system, container, component
\* or service
MappedToStructurizr(m) ==
  Complete(m.actors) \o Complete(m.applications) \o Complete(m.components)
    \o Complete(m.businessServices) \o Complete(m.applicationServices)

\* C26: in the Structurizr DSL of a model whose uids stay unique after sanitization,
\* every mapped person, system, container, component and service is declared exactly
\* once: no identifier is declared twice and no mapped element is left out.
C26_DeclaredExactlyOnce ==
  (/\ out.kind = "next" /\ req.rendererName = "structurizr" /\ req.format = "dsl"
   /\ LET mapped == MappedToStructurizr(model) IN
      ~HasDuplicate([i \in 1..Len(mapped) |-> sanitizeId(mapped[i].uid)])) =>
    LET mapped == MappedToStructurizr(model)
        declared == DeclaredIds(out.content)
    IN /\ ~HasDuplicate(declared)
       /\ \A i \in 1..Len(mapped) :
            Cardinality({n \in 1..Len(declared) : declared[n] = sanitizeId(mapped[i].uid)}) = 1

\* the calls that named the renderer name, in order
CallsOn(name) == SelectSeq(util.log, LAMBDA c : c.name = name)

\* what the calls made so far leave under a name: the renderer of the last call on it, or,
\* without a call, what initializeRenderers registered
LastWord(name) ==
  LET calls == CallsOn(name) IN
  IF calls # <<>> THEN calls[Len(calls)].renderer
  ELSE IF name \in BuiltinNames THEN Builtin(name) ELSE NullRenderer

\* C24: after any sequence of registerRenderer and unregisterRenderer calls the registry
\* holds at most one renderer per name, and getRenderer(name) is the renderer registered
\* last under the name, or null if it was unregistered afterwards; after the
\* initialisation of DiagramService exactly graph, plantuml, structurizr and likec4 are
\* registered.
C24_LastRegistrationWins ==
  (util.op = "registry" /\ util.initialized) =>
    /\ \A name \in RegistryNames : getRenderer(registry, name) = LastWord(name)
    /\ \A n \in DOMAIN registry : registry[n].name = n
    /\ DOMAIN registry \subseteq RegistryNames
    /\ util.log = <<>> => DOMAIN registry = {"graph", "plantuml", "structurizr", "likec4"}

\* C24 witness: custom was registered twice with different renderers and the second one
\* is in the registry; graph was unregistered and is gone
C24_Witness ==
  /\ util.op = "registry" /\ util.initialized
  /\ Len(CallsOn("custom")) = 2
  /\ CallsOn("custom")[1].call = "registerRenderer"
  /\ CallsOn("custom")[2].call = "registerRenderer"
  /\ CallsOn("custom")[1].renderer # CallsOn("custom")[2].renderer
  /\ getRenderer(registry, "custom") = CallsOn("custom")[2].renderer
  /\ Len(CallsOn("graph")) = 1
  /\ getRenderer(registry, "graph") = NullRenderer

\* a call that renderDiagram answered from the cache: it ended with a successful diagram
\* without a request to the server
AnsweredFromCache(c) ==
  /\ plantuml.calls[c].pc = "done"
  /\ plantuml.calls[c].requests = 0
  /\ plantuml.calls[c].notified.kind = "next"
  /\ plantuml.calls[c].notified.diagram.success

\* C25: whenever renderDiagram answers from the cache, the cached diagram was rendered
\* from exactly the source text and the format of the request; two different source
\* texts never share a cache entry.
C25_CacheHitSameSource ==
  \A c \in 1..Len(plantuml.calls) :
    AnsweredFromCache(c) =>
      /\ plantuml.calls[c].notified.diagram.code = plantuml.calls[c].code
      /\ plantuml.calls[c].notified.diagram.format = plantuml.calls[c].options.format

\* the step is a call of DiagramService.renderDiagram
RenderDiagramStep == \E r \in Requests : \E d \in 0..1 : RenderDiagram(r, d)

\* C27: for any raw payload, also one whose uid or name is absent or an empty string,
\* DiagramService.renderDiagram with a registered renderer never fails the validation
\* gate of the registry, because placeholders for uid and name are supplied before the
\* validation runs. (Stated for the built-in renderers, which use the default validate.)
C27_PayloadPassesValidation ==
  [][(RenderDiagramStep /\ req'.rendererName \in BuiltinNames \cap DOMAIN registry)
       => (probe'.validated /\ probe'.isValid)]_vars

\* the calls made for a tab whose callbacks have not run yet
Outstanding(name) ==
  {c \in 1..Len(viewer.subscribers) :
     viewer.subscribers[c].tab = name /\ plantuml.calls[c].pc # "done"}

\* what the callbacks of call c put on the tab
ShownBy(c) ==
  LET call == plantuml.calls[c]
      displayMode == viewer.subscribers[c].displayMode
  IN IF call.notified.kind = "next"
     THEN Shown(call.notified.diagram, displayMode)
     ELSE Shown([code |-> call.code, format |-> call.options.format, success |-> FALSE,
                 error |-> <<displayMode, " rendering failed: ", call.notified.message>>,
                 blob |-> 0],
                displayMode)

\* C21: with several render requests of the PlantUML tab in flight, the diagram shown is
\* the one of the response that arrived last, whichever request was issued last: no
\* response is discarded for being older. (The tab shows nothing only before the first
\* response and after setPlantUMLDisplayMode cleared it.)
C21_LastArrivalShown ==
  LET shown == viewer.rendererTabs["plantuml"].plantUMLDiagram IN
  IF viewer.arrived = 0 THEN shown = NotShown
  ELSE shown \in {NotShown, ShownBy(viewer.arrived)}

\* C21 witness: two requests were in flight together, the one issued last was answered
\* first, and the tab shows the diagram of the text of the first request, not of its
\* present text
C21_Witness ==
  /\ Len(plantuml.calls) = 2
  /\ viewer.arrived = 1
  /\ plantuml.calls[1].pc = "done" /\ plantuml.calls[2].pc = "done"
  /\ plantuml.calls[1].requests > 0 /\ plantuml.calls[2].requests > 0
  /\ plantuml.calls[1].notified.diagram.success
  /\ plantuml.calls[2].notified.diagram.success
  /\ plantuml.calls[1].code # plantuml.calls[2].code
  /\ viewer.rendererTabs["plantuml"].editableCode = plantuml.calls[2].code
  /\ viewer.rendererTabs["plantuml"].plantUMLDiagram.diagram.code = plantuml.calls[1].code

\* C28: isRendering of the PlantUML tab is true exactly while at least one render request
\* of the tab is outstanding: never false with a request in flight, and false once all
\* requests have completed.
C28_RenderingIffOutstanding ==
  viewer.rendererTabs["plantuml"].isRendering <=> Outstanding("plantuml") # {}

\* the text of the last render request made for a tab
LastRequested(name) ==
  LET made == {c \in 1..Len(viewer.subscribers) : viewer.subscribers[c].tab = name} IN
  IF made = {} THEN Undef
  ELSE plantuml.calls[CHOOSE c \in made : \A d \in made : d <= c].code

\* the PlantUML tab holds a text for which no render has been requested
Unrendered ==
  /\ viewer.rendererTabs["plantuml"].editableCode # Empty
  /\ viewer.rendererTabs["plantuml"].editableCode # LastRequested("plantuml")

\* C29: every edit of the PlantUML tab's code is eventually followed by a render of the
\* tab's then-current code, also when further edits or tab switches fall into the
\* debounce window.
C29_EditsGetRendered == Unrendered ~> ~Unrendered

\* the calls of selectArchitecture that still wait for their fetch
Awaiting == {f \in 1..Len(dashboard.fetches) : dashboard.fetches[f].pc = "await"}

\* C30: when an architecture is selected before the fetch of the one selected before it
\* has completed, then once the fetches have completed selectedArchitecture and
\* analysisData belong to the last selection, in whatever order the responses arrived;
\* and isAnalyzing is false only when no fetch is outstanding.
C30_LastSelectionWins ==
  LET n == Len(dashboard.fetches) IN
  /\ (n > 0 /\ \A f \in 1..n : dashboard.fetches[f].pc = "value") =>
       /\ dashboard.selectedArchitecture.uid = dashboard.fetches[n].uid
       /\ dashboard.analysisData = dashboard.fetches[n].uid
  /\ ~dashboard.isAnalyzing => Awaiting = {}

====
